---- MODULE Spec2Model ----
(***************************************************************************)
(* The planning board of bendj1231/planning-room-: the board mutation      *)
(* core, the pointer state machine, the viewport and the scanner import,   *)
(* in its two implementations:                                             *)
(*   impl = "A"  src/App.tsx            (one board, functional setters)    *)
(*   impl = "B"  src/unnamed/part_000   (rooms; the board setters rewrite  *)
(*                                       the whole room record)            *)
(* Lengths are integers in board units / screen pixels; the scale is kept  *)
(* in thousandths (1000 = 1.0) and quotients are rounded down.             *)
(***************************************************************************)
EXTENDS Integers, Sequences, FiniteSets, TLC

VARIABLES
  impl,               \* which implementation runs
  activeSection,      \* App: the mounted section
  boardItems,         \* the node collection of the (active) board
  boardLinks,         \* the link collection of the (active) board
  selectedId, draggingId, pendingLinkStart, activeLinkVariant,
  activeLinkMenuId, deletingIds, transform, isPanning, focusModeId,
  isTaskWizardOpen, wizardTaskName, wizardGoalId, wizardNewGoalName,
  wizardSourceId,
  timers,             \* pending setTimeout callbacks of handleDeleteItem, oldest first
  blocks, contextMenu,\* DocumentScanner state
  nextNode, nextLink, nextBlock,  \* number of random ids drawn so far
  rooms,              \* part_000: the rooms, first to last; the items and links of
                      \* the active room are boardItems and boardLinks
  activeRoomId,       \* part_000: the id of the active room, or null
  nextRoom,           \* number of random room ids drawn so far
  inputs,             \* free-valued inputs (typing, pointer deltas, wheel) left in this run
  steps,              \* user events left in this run
  event               \* the handler (and branch of it) that ran last

boardVars  == <<boardItems, boardLinks>>
pointerVars == <<selectedId, draggingId, pendingLinkStart, activeLinkVariant,
                 activeLinkMenuId, isPanning, focusModeId>>
wizardVars == <<isTaskWizardOpen, wizardTaskName, wizardGoalId, wizardNewGoalName,
                wizardSourceId>>
scanVars   == <<blocks, contextMenu>>
idVars     == <<nextNode, nextLink, nextBlock>>
roomVars   == <<rooms, activeRoomId, nextRoom>>
vars == <<impl, activeSection, boardItems, boardLinks, selectedId, draggingId,
          pendingLinkStart, activeLinkVariant, activeLinkMenuId, deletingIds,
          transform, isPanning, focusModeId, isTaskWizardOpen, wizardTaskName,
          wizardGoalId, wizardNewGoalName, wizardSourceId, timers, blocks,
          contextMenu, nextNode, nextLink, nextBlock, rooms, activeRoomId,
          nextRoom, inputs, steps, event>>

----------------------------------------------------------------------------
(* Bounds of the model *)

MaxItems == 7       \* nodes on the board after a sync from the scanner
MaxLinks == 6       \* links on the board
MaxTimers == 2      \* deletion timers pending at once
MaxRandom == 3      \* random ids drawn per kind (node, link, block)
MaxBlocks == 2      \* blocks in the scanner document
MaxInputs == 1      \* free-valued inputs per run
MaxSteps == 4       \* user events per run
MaxPointerSteps == 5   \* user events per run of pointer events only
MaxPointerInputs == 2  \* pointer moves per run of pointer events only
MaxViewSteps == 4      \* user events per run of viewport events only
MaxViewInputs == 3     \* wheel events, zoom clicks and pointer moves per such run
MaxScanSteps == 8      \* user events per run of scanner events only
MaxWizardSteps == 8    \* user events per run of task-wizard events only
MaxPlaceSteps == 3     \* user events per run of node-adding events only
MaxLinkSteps == 7      \* user events per run of link-drawing events only
MaxSheetSteps == 9     \* the operations of the goal-and-two-objectives scenario
MaxSheetInputs == 2    \* zoom clicks beside them
MaxRoomSteps == 6      \* user events per run with rooms
MaxRoomInputs == 1     \* edits and pointer moves among them
MaxDragSteps == 6      \* user events per run of presses, moves and releases
MaxDragInputs == 2     \* pointer moves among them
MaxDeleteSteps == 8    \* user events per run of deletions
MaxDocBlocks == 4      \* blocks of a document open in the scanner
MaxBatchSteps == 3     \* user events per run over such a document
LatticeReach == 7      \* the crowded room: nodes on each side of its centre

----------------------------------------------------------------------------
(* Values *)

Null == "null"                 \* JavaScript null / undefined
NoGoal == ""                   \* wizardGoalId: nothing chosen
NewGoal == "new_goal"          \* wizardGoalId: "+ Create New Goal"

ItemTypes == {"goal", "objective", "sticky", "idea-strip", "image"}
Variants == {"critical", "positive", "alternative", "neutral"}

\* Math.random().toString(36).substr(2, 9): a string no earlier draw returned
RandomNodeId(k) == "n" \o ToString(k)
RandomLinkId(k) == "k" \o ToString(k)
RandomBlockId(k) == "b" \o ToString(k)
ScanId(blockId) == "scan-" \o blockId

Item(id, type, content, x, y) ==
  [id |-> id, type |-> type, content |-> content, x |-> x, y |-> y, isLocked |-> FALSE]

Link(id, fromId, toId, variant) ==
  [id |-> id, fromId |-> fromId, toId |-> toId, variant |-> variant]

INITIAL_BOARD_ITEMS ==
  << Item("1", "objective", "Mission: Alpha Launch", 550, 50),
     Item("2", "sticky", "Core Task: Develop MVP", 600, 300),
     Item("3", "idea-strip", "User Auth Flow", 250, 300),
     Item("4", "idea-strip", "Payment Gateway", 950, 300),
     Item("5", "goal", "Public Release", 630, 600) >>

INITIAL_BOARD_LINKS ==
  << Link("l1", "1", "2", "critical"),
     Link("l2", "3", "2", "neutral"),
     Link("l3", "4", "2", "neutral"),
     Link("l4", "2", "5", "positive") >>

INITIAL_BLOCKS ==
  << [id |-> "1", type |-> "text", content |-> "Start typing your strategy here...",
      tag |-> Null] >>

\* the size of the canvas element (getBoundingClientRect)
RectWidth == 1200
RectHeight == 800

----------------------------------------------------------------------------
(* Sequences *)

Ids(s) == {s[i].id : i \in DOMAIN s}

Has(items, id) == \E i \in DOMAIN items : items[i].id = id
HasType(items, type) == \E i \in DOMAIN items : items[i].type = type

\* Array.prototype.find, where an element matches: the first one
Find(items, id) ==
  items[CHOOSE i \in DOMAIN items :
          /\ items[i].id = id
          /\ \A j \in DOMAIN items : items[j].id = id => i <= j]

FindType(items, type) ==
  items[CHOOSE i \in DOMAIN items :
          /\ items[i].type = type
          /\ \A j \in DOMAIN items : items[j].type = type => i <= j]

----------------------------------------------------------------------------
(* Geometry engine *)

getItemDimensions(type) ==
  CASE type = "objective"  -> [w |-> 300, h |-> 200]
    [] type = "idea-strip" -> [w |-> 280, h |-> 60]
    [] type = "image"      -> [w |-> 280, h |-> 220]
    [] type = "goal"       -> [w |-> 180, h |-> 180]
    [] OTHER               -> [w |-> 180, h |-> 180]

Buffer == 40

\* the comparisons taken inclusive: boxes exactly the buffer apart count as overlapping
checkOverlapInclusive(items, x, y, width, height, excludeId) ==
  \E i \in DOMAIN items :
    LET item == items[i]
        d == getItemDimensions(item.type)
    IN /\ item.id # excludeId
       /\ x <= item.x + d.w + Buffer
       /\ x + width + Buffer >= item.x
       /\ y <= item.y + d.h + Buffer
       /\ y + height + Buffer >= item.y

checkOverlap(items, x, y, width, height, excludeId) ==
  \E i \in DOMAIN items :
    LET item == items[i]
        d == getItemDimensions(item.type)
    IN /\ item.id # excludeId
       /\ x < item.x + d.w + Buffer
       /\ x + width + Buffer > item.x
       /\ y < item.y + d.h + Buffer
       /\ y + height + Buffer > item.y

RowHeight == 250
GridRows == 5
\* the offsets taken rightwards first, then leftwards
GridOffsetsRightFirst == <<0, 220, 440, 660, 880, -220, -440, -660, -880>>

GridOffsets == <<0, 220, -220, 440, -440, 660, -660, 880, -880>>

\* the cells of the grid-below search, in the order the two loops visit them
GridCells(refX, refY) ==
  [n \in 1..(GridRows * Len(GridOffsets)) |->
     [x |-> refX + GridOffsets[((n - 1) % Len(GridOffsets)) + 1],
      y |-> refY + (((n - 1) \div Len(GridOffsets)) + 1) * RowHeight]]

MaxAttempts == 200

\* round(cos(0.8 k) * 15 k) and round(sin(0.8 k) * 15 k), k = 1..200
SpiralDX ==
  <<
     10, -1, -33, -60, -49, 8, 81, 119, 82, -22, -134, -177, -109, 43,
     190, 233, 130, -70, -249, -287, -145, 104, 311, 338, 153, -145, -374, -385,
     -154, 191, 439, 429, 148, -243, -505, -467, -135, 300, 571, 501, 114, -363,
     -637, -528, -86, 429, 702, 550, 51, -500, -764, -566, -9, 575, 825, 574,
     -40, -652, -882, -576, 96, 732, 936, 570, -159, -813, -986, -557, 228, 896,
     1032, 536, -303, -979, -1071, -507, 384, 1063, 1106, 470, -470, -1145, -1133, -425,
     561, 1227, 1155, 372, -657, -1306, -1168, -311, 756, 1382, 1175, 242, -858, -1456,
     -1173, -166, 964, 1525, 1163, 81, -1071, -1590, -1144, 10, 1180, 1649, 1117, -108,
     -1290, -1702, -1081, 214, 1399, 1750, 1035, -325, -1509, -1790, -980, 442, 1617, 1822,
     916, -564, -1723, -1846, -843, 691, 1826, 1862, 760, -823, -1926, -1869, -669, 958,
     2022, 1867, 568, -1095, -2113, -1854, -459, 1236, 2199, 1832, 341, -1377, -2278, -1799,
     -216, 1520, 2350, 1756, 82, -1663, -2415, -1702, 58, 1805, 2472, 1638, -206, -1946,
     -2519, -1562, 360, 2085, 2558, 1476, -519, -2220, -2586, -1378, 684, 2352, 2604, 1270,
     -853, -2479, -2611, -1152, 1026, 2601, 2607, 1023, -1202, -2717, -2592, -884, 1380, 2826,
     2564, 736, -1559, -2927
  >>

SpiralDY ==
  <<
     11, 30, 30, -4, -57, -90, -66, 14, 107, 148, 97, -31, -161, -206,
     -121, 56, 219, 261, 139, -86, -280, -313, -150, 124, 342, 362, 154, -167,
     -407, -408, -152, 216, 472, 448, 142, -271, -538, -484, -125, 331, 604, 515,
     101, -395, -669, -540, -70, 464, 733, 559, 31, -537, -795, -571, 15, 613,
     854, 576, -67, -691, -910, -574, 127, 772, 962, 565, -193, -854, -1010, -548,
     265, 938, 1052, 523, -343, -1021, -1089, -490, 426, 1104, 1120, 449, -515, -1186,
     -1145, -400, 608, 1266, 1162, 343, -706, -1344, -1173, -278, 807, 1419, 1175, 205,
     -911, -1491, -1169, -124, 1017, 1558, 1155, 37, -1125, -1620, -1132, 58, 1235, 1676,
     1100, -160, -1345, -1727, -1059, 268, 1454, 1770, 1009, -383, -1563, -1807, -949, 502,
     1670, 1835, 881, -627, -1775, -1855, -803, 756, 1877, 1867, 716, -890, -1975, -1869,
     -620, 1026, 2068, 1862, 515, -1165, -2157, -1844, -401, 1306, 2239, 1817, 280, -1449,
     -2315, -1779, -150, 1592, 2384, 1730, 13, -1734, -2444, -1671, 131, 1876, 2497, 1601,
     -282, -2016, -2540, -1520, 439, 2153, 2573, 1428, -601, -2287, -2596, -1326, 768, 2416,
     2609, 1213, -939, -2541, -2611, -1089, 1113, 2660, 2601, 955, -1290, -2772, -2579, -811,
     1469, 2877, 2545, 658
  >>

\* the candidate after k turns of the spiral loop
SpiralCandidate(refX, refY, k) ==
  IF k = 0 THEN [x |-> refX, y |-> refY]
  ELSE [x |-> refX + SpiralDX[k], y |-> refY + SpiralDY[k]]

\* the loop never entered: the reference point returned as it is
SpiralTurnsNone(items, refX, refY, width, height) == 0

\* the while loop of findBestPosition: the number of turns it makes, which is the
\* first k at which its condition (overlap, and attempts < 200) is false.
\* first[lo, hi] is the first such k in lo..hi, or hi + 1 when there is none; the
\* lower half of a range is searched before its upper half.
SpiralTurns(items, refX, refY, width, height) ==
  LET continues(k) == LET c == SpiralCandidate(refX, refY, k)
                      IN checkOverlap(items, c.x, c.y, width, height, Null)
                         /\ k < MaxAttempts
      first[lo \in 0..MaxAttempts, hi \in 0..MaxAttempts] ==
        IF lo = hi
        THEN IF continues(lo) THEN hi + 1 ELSE lo
        ELSE LET mid == (lo + hi) \div 2
                 low == first[lo, mid]
             IN IF low <= mid THEN low ELSE first[mid + 1, hi]
  IN first[0, MaxAttempts]

SpiralSearch(items, refX, refY, width, height) ==
  SpiralCandidate(refX, refY, SpiralTurns(items, refX, refY, width, height))

\* a search that would settle for the last cell tried when no cell is free
findBestPositionLastCell(items, refX, refY, width, height, mode) ==
  LET cells == GridCells(refX, refY)
      free == {n \in DOMAIN cells :
                 ~checkOverlap(items, cells[n].x, cells[n].y, width, height, Null)}
  IN IF mode = "grid-below"
     THEN IF free # {} THEN cells[CHOOSE n \in free : \A m \in free : n <= m]
          ELSE cells[Len(cells)]
     ELSE SpiralSearch(items, refX, refY, width, height)

findBestPosition(items, refX, refY, width, height, mode) ==
  LET cells == GridCells(refX, refY)
      free == {n \in DOMAIN cells :
                 ~checkOverlap(items, cells[n].x, cells[n].y, width, height, Null)}
  IN IF mode = "grid-below" /\ free # {}
     THEN cells[CHOOSE n \in free : \A m \in free : n <= m]
     ELSE SpiralSearch(items, refX, refY, width, height)

getViewportCenter(t) ==
  [x |-> ((RectWidth \div 2 - t.x) * 1000) \div t.s,
   y |-> ((RectHeight \div 2 - t.y) * 1000) \div t.s]

----------------------------------------------------------------------------
(* Inputs the environment chooses from *)

ToolbarTypes == {"objective", "sticky", "idea-strip", "goal"}
TypedText == {"edited"}
TaskNames == {"Secure Funding"}
GoalNames == {"IPO Launch"}
PointerDeltas == {[dx |-> 60, dy |-> 30], [dx |-> -90, dy |-> 0]}
WheelDeltas == {-4500, -500, 500, 1500}
MousePoints == {[x |-> 600, y |-> 400], [x |-> 300, y |-> 200]}
Buttons == {0, 2}
Sections == IF impl = "A" THEN {"planning", "scan", "document"}
            ELSE {"dashboard", "planning", "scan", "document"}

----------------------------------------------------------------------------
(* Initial state *)

InitialTransform == [x |-> 0, y |-> 0, s |-> 1000]

\* a room of part_000: the items and links of the active room are kept in
\* boardItems and boardLinks, and its record in rooms holds none
Room(id, items, links) == [id |-> id, items |-> items, links |-> links]
Active(id) == Room(id, <<>>, <<>>)
DefaultRoomId == "default-room"

\* the state after the first render: implementation i with the board (items, links)
\* in its one board (A) or its active room (B), the rooms rs of which the one
\* with id active is shown, and a run of s events, n of them free-valued
MountedIn(i, items, links, rs, active, s, n) ==
  /\ impl = i
  /\ rooms = rs
  /\ activeRoomId = active
  /\ nextRoom = 0
  /\ activeSection = IF i = "A" THEN "planning" ELSE "dashboard"
  /\ boardItems = items
  /\ boardLinks = links
  /\ selectedId = Null
  /\ draggingId = Null
  /\ pendingLinkStart = Null
  /\ activeLinkVariant = "critical"
  /\ activeLinkMenuId = Null
  /\ deletingIds = {}
  /\ transform = InitialTransform
  /\ isPanning = FALSE
  /\ focusModeId = Null
  /\ isTaskWizardOpen = FALSE
  /\ wizardTaskName = ""
  /\ wizardGoalId = NoGoal
  /\ wizardNewGoalName = ""
  /\ wizardSourceId = Null
  /\ timers = <<>>
  /\ blocks = INITIAL_BLOCKS
  /\ contextMenu = Null
  /\ nextNode = 0
  /\ nextLink = 0
  /\ nextBlock = 0
  /\ inputs = n
  /\ steps = s
  /\ event = "mount"

\* App.tsx has no rooms; part_000 starts in the first room of those stored
Mounted(i, items, links, s, n) ==
  IF i = "A" THEN MountedIn(i, items, links, <<>>, Null, s, n)
  ELSE MountedIn(i, items, links, <<Active(DefaultRoomId)>>, DefaultRoomId, s, n)

Init ==
  \E i \in {"A", "B"} :
    Mounted(i, INITIAL_BOARD_ITEMS, INITIAL_BOARD_LINKS, MaxSteps, MaxInputs)

----------------------------------------------------------------------------
(* The board setters *)

\* the board as one record: in B the items and links of the active room
Board == [items |-> boardItems, links |-> boardLinks]

\* B, App: setBoardItems = (i) => updateActiveRoom(i, activeRoom.links), where
\* activeRoom is the room as rendered when the calling handler was created
SetBoardItemsB(room, rendered, i) == [items |-> i, links |-> rendered.links]

\* B, App: setBoardLinks = (l) => updateActiveRoom(activeRoom.items, l)
SetBoardLinksB(room, rendered, l) == [items |-> rendered.items, links |-> l]

\* the filter of the deferred removal
CascadeOutgoing(links, id) == SelectSeq(links, LAMBDA l : l.fromId # id)
RemoveItem(items, id) == SelectSeq(items, LAMBDA item : item.id # id)
CascadeLinks(links, id) == SelectSeq(links, LAMBDA l : l.fromId # id /\ l.toId # id)

\* handleUpdateItem's map over the nodes: the node id with content replaced
\* the map without its test on the id: every node patched
UpdatedItemsAll(items, id, content) ==
  [i \in DOMAIN items |-> [items[i] EXCEPT !.content = content]]

UpdatedItems(items, id, content) ==
  [i \in DOMAIN items |->
     IF items[i].id = id THEN [items[i] EXCEPT !.content = content] ELSE items[i]]

DefaultContent(type) ==
  CASE type = "image"      -> "https://picsum.photos/300/200"
    [] type = "sticky"     -> "Note"
    [] type = "objective"  -> "New Objective"
    [] type = "idea-strip" -> "New Idea Strip"
    [] type = "goal"       -> "New Goal"
    [] OTHER               -> "Card"

----------------------------------------------------------------------------
(* What the pointer can reach *)

\* part_000: activeRoom = rooms.find(r => r.id === activeRoomId) || rooms[0] is
\* undefined when there is no room
NoActiveRoom == impl = "B" /\ rooms = <<>>

\* part_000 renders the board when there is an active room
OnBoard == activeSection = "planning" /\ ~NoActiveRoom

\* A: the wizard modal covers the canvas while it is open; B renders no modal
CanvasReachable == OnBoard /\ ~(impl = "A" /\ isTaskWizardOpen)

\* A: a node in its exit animation has pointer-events-none
Pressable(id) ==
  /\ CanvasReachable
  /\ id \in Ids(boardItems)
  /\ ~(impl = "A" /\ id \in deletingIds)

\* the mouseup of a click on the canvas has been handled by handleContainerMouseUp
Released == draggingId = Null /\ ~isPanning

----------------------------------------------------------------------------
(* Focus mode *)

\* enterFocusMode: the transform that puts (targetX, targetY) mid-canvas at 1.5
FocusTransform(targetX, targetY) ==
  [x |-> RectWidth \div 2 - (targetX * 1500) \div 1000,
   y |-> RectHeight \div 2 - (targetY * 1500) \div 1000,
   s |-> 1500]

enterFocusMode(id, targetX, targetY) ==
  /\ focusModeId' = id
  /\ selectedId' = id
  /\ transform' = FocusTransform(targetX, targetY)

exitFocusMode ==
  /\ OnBoard
  /\ impl = "A"
  /\ focusModeId # Null
  /\ focusModeId' = Null
  /\ UNCHANGED <<impl, activeSection, boardVars, selectedId, draggingId,
                 pendingLinkStart, activeLinkVariant, activeLinkMenuId, deletingIds,
                 transform, isPanning, wizardVars, timers, scanVars, idVars, inputs>>

handleDoubleClickNode(id) ==
  /\ Pressable(id)
  /\ Released
  /\ selectedId = id /\ pendingLinkStart = Null /\ activeLinkMenuId = Null
  /\ LET item == Find(boardItems, id)
     IN enterFocusMode(id, item.x, item.y + 100)
  /\ UNCHANGED <<impl, activeSection, boardVars, draggingId, pendingLinkStart,
                 activeLinkVariant, activeLinkMenuId, deletingIds, isPanning,
                 wizardVars, timers, scanVars, idVars, inputs>>

----------------------------------------------------------------------------
(* Adding nodes *)

\* handleAddItem without the test on the type: focus mode entered for every type
handleAddItemFocus(type) ==
  /\ OnBoard
  /\ nextNode < MaxRandom
  /\ nextNode' = nextNode + 1
  /\ UNCHANGED <<impl, activeSection, boardLinks, draggingId, pendingLinkStart,
                 activeLinkVariant, activeLinkMenuId, deletingIds, isPanning,
                 wizardVars, timers, scanVars, nextLink, nextBlock, inputs>>
  /\ LET center == getViewportCenter(transform)
         dims == getItemDimensions(type)
         pos == findBestPosition(boardItems, center.x - dims.w \div 2,
                                 center.y - dims.h \div 2, dims.w, dims.h, "spiral")
         newItem == Item(RandomNodeId(nextNode + 1), type, DefaultContent(type),
                         pos.x, pos.y)
     IN /\ boardItems' = Append(boardItems, newItem)
        /\ enterFocusMode(newItem.id, newItem.x, newItem.y)

handleAddItem(type) ==
  /\ OnBoard
  /\ nextNode < MaxRandom
  /\ nextNode' = nextNode + 1
  /\ UNCHANGED <<impl, activeSection, boardLinks, draggingId, pendingLinkStart,
                 activeLinkVariant, activeLinkMenuId, deletingIds, isPanning,
                 wizardVars, timers, scanVars, nextLink, nextBlock, inputs>>
  /\ LET center == getViewportCenter(transform)
         dims == getItemDimensions(type)
         pos == findBestPosition(boardItems, center.x - dims.w \div 2,
                                 center.y - dims.h \div 2, dims.w, dims.h, "spiral")
         newItem == Item(RandomNodeId(nextNode + 1), type, DefaultContent(type),
                         pos.x, pos.y)
     IN /\ boardItems' = Append(boardItems, newItem)
        /\ IF type = "objective"
           THEN enterFocusMode(newItem.id, newItem.x, newItem.y)
           ELSE /\ selectedId' = newItem.id
                /\ UNCHANGED <<focusModeId, transform>>

createConnectedTask(sourceId, variant) ==
  /\ OnBoard
  /\ activeLinkMenuId = sourceId
  /\ variant \in (IF impl = "A" THEN {"critical", "alternative", "positive"}
                  ELSE {"critical"})
  /\ Has(boardItems, sourceId)
  /\ Find(boardItems, sourceId).type = "objective"
  /\ nextNode < MaxRandom
  /\ Len(boardLinks) < MaxLinks /\ nextLink < MaxRandom
  /\ LET sourceItem == Find(boardItems, sourceId)
         dims == getItemDimensions("sticky")
         pos == findBestPosition(boardItems, sourceItem.x, sourceItem.y,
                                 dims.w, dims.h, "grid-below")
         newTask == Item(RandomNodeId(nextNode + 1), "sticky", "New Task", pos.x, pos.y)
         newLink == Link(RandomLinkId(nextLink + 1), sourceItem.id, newTask.id, variant)
         after == SetBoardLinksB(
                    SetBoardItemsB(Board, Board, Append(boardItems, newTask)),
                    Board, Append(boardLinks, newLink))
     IN /\ boardItems' = IF impl = "A" THEN Append(boardItems, newTask) ELSE after.items
        /\ boardLinks' = IF impl = "A" THEN Append(boardLinks, newLink) ELSE after.links
        /\ selectedId' = newTask.id
  /\ activeLinkMenuId' = Null
  /\ nextNode' = nextNode + 1
  /\ nextLink' = nextLink + 1
  /\ UNCHANGED <<impl, activeSection, draggingId, pendingLinkStart, activeLinkVariant,
                 deletingIds, transform, isPanning, focusModeId, wizardVars, timers,
                 scanVars, nextBlock, inputs>>

createConnectedIdea(sourceId) ==
  /\ OnBoard
  /\ impl = "A"
  /\ activeLinkMenuId = sourceId
  /\ Has(boardItems, sourceId)
  /\ Find(boardItems, sourceId).type \in {"objective", "sticky"}
  /\ nextNode < MaxRandom
  /\ Len(boardLinks) < MaxLinks /\ nextLink < MaxRandom
  /\ LET sourceItem == Find(boardItems, sourceId)
         dims == getItemDimensions("idea-strip")
         pos == findBestPosition(boardItems, sourceItem.x, sourceItem.y,
                                 dims.w, dims.h, "grid-below")
         newItem == Item(RandomNodeId(nextNode + 1), "idea-strip", "New Idea",
                         pos.x, pos.y)
         newLink == Link(RandomLinkId(nextLink + 1), sourceItem.id, newItem.id, "neutral")
     IN /\ boardItems' = Append(boardItems, newItem)
        /\ boardLinks' = Append(boardLinks, newLink)
        /\ selectedId' = newItem.id
  /\ activeLinkMenuId' = Null
  /\ nextNode' = nextNode + 1
  /\ nextLink' = nextLink + 1
  /\ UNCHANGED <<impl, activeSection, draggingId, pendingLinkStart, activeLinkVariant,
                 deletingIds, transform, isPanning, focusModeId, wizardVars, timers,
                 scanVars, nextBlock, inputs>>

----------------------------------------------------------------------------
(* The task wizard *)

openTaskWizard(sourceId) ==
  /\ OnBoard
  /\ wizardSourceId' = sourceId
  /\ wizardGoalId' = IF HasType(boardItems, "goal")
                     THEN FindType(boardItems, "goal").id ELSE NoGoal
  /\ isTaskWizardOpen' = TRUE
  /\ UNCHANGED <<impl, activeSection, boardVars, pointerVars, deletingIds, transform,
                 wizardTaskName, wizardNewGoalName, timers, scanVars, idVars, inputs>>

\* the modal's form, rendered by A only
WizardShown == OnBoard /\ impl = "A" /\ isTaskWizardOpen

WizardType ==
  /\ WizardShown
  /\ \/ /\ wizardTaskName' \in TaskNames \cup {""}
        /\ wizardTaskName' # wizardTaskName
        /\ UNCHANGED <<wizardGoalId, wizardNewGoalName>>
     \/ /\ wizardGoalId' \in {NewGoal} \cup
                              {boardItems[i].id : i \in {j \in DOMAIN boardItems :
                                                          boardItems[j].type = "goal"}}
        /\ wizardGoalId' # wizardGoalId
        /\ UNCHANGED <<wizardTaskName, wizardNewGoalName>>
     \/ /\ wizardGoalId = NewGoal
        /\ wizardNewGoalName' \in GoalNames \cup {""}
        /\ wizardNewGoalName' # wizardNewGoalName
        /\ UNCHANGED <<wizardTaskName, wizardGoalId>>
  /\ UNCHANGED <<impl, activeSection, boardVars, pointerVars, deletingIds, transform,
                 isTaskWizardOpen, wizardSourceId, timers, scanVars, idVars, inputs>>

WizardCancel ==
  /\ WizardShown
  /\ isTaskWizardOpen' = FALSE
  /\ UNCHANGED <<impl, activeSection, boardVars, pointerVars, deletingIds, transform,
                 wizardTaskName, wizardGoalId, wizardNewGoalName, wizardSourceId,
                 timers, scanVars, idVars, inputs>>

\* what handleCreateLinkedTask builds from the state it was rendered with
WizardPlan ==
  LET hasGiven == wizardSourceId # Null /\ Has(boardItems, wizardSourceId)
      hasSource == hasGiven \/ HasType(boardItems, "objective")
      sourceItem == IF hasGiven THEN Find(boardItems, wizardSourceId)
                    ELSE FindType(boardItems, "objective")
      center == getViewportCenter(transform)
      refX == IF hasSource THEN sourceItem.x ELSE center.x
      refY == IF hasSource THEN sourceItem.y ELSE center.y
      taskDims == getItemDimensions("sticky")
      taskPos == findBestPosition(boardItems, refX, refY, taskDims.w, taskDims.h,
                                  IF hasSource THEN "grid-below" ELSE "spiral")
      newTask == Item(RandomNodeId(nextNode + 1), "sticky",
                      IF wizardTaskName # "" THEN wizardTaskName ELSE "New Task",
                      taskPos.x, taskPos.y)
      sourceLinks == IF hasSource
                     THEN <<Link(RandomLinkId(nextLink + 1), sourceItem.id, newTask.id,
                                 "critical")>>
                     ELSE <<>>
      makeGoal == wizardGoalId = NewGoal \/ (wizardGoalId = NoGoal /\ wizardNewGoalName # "")
      goalDims == getItemDimensions("goal")
      goalPos == findBestPosition(boardItems, taskPos.x, taskPos.y, goalDims.w,
                                  goalDims.h, "grid-below")
      newGoal == Item(RandomNodeId(nextNode + 2), "goal",
                      IF wizardNewGoalName # "" THEN wizardNewGoalName ELSE "New Goal",
                      goalPos.x, goalPos.y)
      targetGoalId == IF makeGoal THEN newGoal.id ELSE wizardGoalId
      goalLinks == IF targetGoalId # NoGoal /\ targetGoalId # NewGoal
                   THEN <<Link(RandomLinkId(nextLink + Len(sourceLinks) + 1), newTask.id,
                               targetGoalId, "positive")>>
                   ELSE <<>>
  IN [newItems |-> IF makeGoal THEN <<newTask, newGoal>> ELSE <<newTask>>,
      newLinks |-> sourceLinks \o goalLinks]

handleCreateLinkedTask ==
  /\ WizardShown
  /\ wizardTaskName # ""
  /\ wizardGoalId = NewGoal => wizardNewGoalName # ""
  /\ LET plan == WizardPlan
     IN /\ nextNode + Len(plan.newItems) <= MaxRandom
        /\ Len(boardLinks) + Len(plan.newLinks) <= MaxLinks
        /\ nextLink + Len(plan.newLinks) <= MaxRandom
        /\ boardItems' = boardItems \o plan.newItems
        /\ boardLinks' = boardLinks \o plan.newLinks
        /\ nextNode' = nextNode + Len(plan.newItems)
        /\ nextLink' = nextLink + Len(plan.newLinks)
  /\ isTaskWizardOpen' = FALSE
  /\ wizardTaskName' = ""
  /\ wizardGoalId' = NoGoal
  /\ wizardNewGoalName' = ""
  /\ wizardSourceId' = Null
  /\ UNCHANGED <<impl, activeSection, pointerVars, deletingIds, transform, timers,
                 scanVars, nextBlock, inputs>>

----------------------------------------------------------------------------
(* Editing and deleting nodes *)

handleUpdateItem(id, content) ==
  /\ OnBoard
  /\ inputs > 0
  /\ \E i \in DOMAIN boardItems : boardItems[i].id = id /\ boardItems[i].type # "image"
  /\ LET patched == UpdatedItems(boardItems, id, content)
     IN /\ boardItems' = IF impl = "A" THEN patched
                         ELSE SetBoardItemsB(Board, Board, patched).items
        /\ boardLinks' = IF impl = "A" THEN boardLinks
                         ELSE SetBoardItemsB(Board, Board, patched).links
  /\ inputs' = inputs - 1
  /\ UNCHANGED <<impl, activeSection, pointerVars, deletingIds, transform, wizardVars,
                 timers, scanVars, idVars>>

\* the callback handleDeleteItem hands to setTimeout, with what its closure holds:
\* A reads nothing but id; B reads the board, the selection and the focus target it
\* was rendered with. live: the PlanningBoard that set it is still mounted.
Timer(id) ==
  IF impl = "A"
  THEN [id |-> id, live |-> TRUE, items |-> <<>>, links |-> <<>>,
        selectedId |-> Null, focusModeId |-> Null, room |-> Null]
  ELSE [id |-> id, live |-> TRUE, items |-> boardItems, links |-> boardLinks,
        selectedId |-> selectedId, focusModeId |-> focusModeId, room |-> activeRoomId]

handleDeleteItem(id) ==
  /\ OnBoard
  /\ id \in Ids(boardItems)
  /\ selectedId = id /\ focusModeId = Null      \* the delete button is rendered
  /\ Len(timers) < MaxTimers
  /\ deletingIds' = deletingIds \cup {id}
  /\ IF impl = "A"
     THEN /\ selectedId' = IF selectedId = id THEN Null ELSE selectedId
          /\ focusModeId' = IF focusModeId = id THEN Null ELSE focusModeId
     ELSE UNCHANGED <<selectedId, focusModeId>>
  /\ timers' = Append(timers, Timer(id))
  /\ UNCHANGED <<impl, activeSection, boardVars, draggingId, pendingLinkStart,
                 activeLinkVariant, activeLinkMenuId, transform, isPanning, wizardVars,
                 scanVars, idVars, inputs>>

\* the board after the deferred removal of t.id
RemovalA(t) ==
  [items |-> RemoveItem(boardItems, t.id), links |-> CascadeLinks(boardLinks, t.id)]

RemovalB(t) ==
  LET rendered == [items |-> t.items, links |-> t.links]
  IN SetBoardLinksB(
       SetBoardItemsB(Board, rendered, RemoveItem(t.items, t.id)),
       rendered, CascadeLinks(t.links, t.id))

\* the oldest timer fires (equal delays fire in the order they were set)
TimerFires ==
  /\ timers # <<>>
  /\ LET t == Head(timers)
         after == IF impl = "A" THEN RemovalA(t) ELSE RemovalB(t)
     IN /\ boardItems' = after.items
        /\ boardLinks' = after.links
        /\ deletingIds' = IF t.live THEN deletingIds \ {t.id} ELSE deletingIds
        /\ selectedId' = IF impl = "B" /\ t.live /\ t.selectedId = t.id
                         THEN Null ELSE selectedId
        /\ focusModeId' = IF impl = "B" /\ t.live /\ t.focusModeId = t.id
                          THEN Null ELSE focusModeId
  /\ timers' = Tail(timers)
  /\ UNCHANGED <<impl, activeSection, draggingId, pendingLinkStart, activeLinkVariant,
                 activeLinkMenuId, transform, isPanning, wizardVars, scanVars, idVars,
                 inputs>>

ClearBoard ==
  /\ OnBoard
  /\ impl = "A"
  /\ boardItems' = <<>>
  /\ boardLinks' = <<>>
  /\ UNCHANGED <<impl, activeSection, pointerVars, deletingIds, transform, wizardVars,
                 timers, scanVars, idVars, inputs>>

----------------------------------------------------------------------------
(* Viewport *)

Clamp(v, lo, hi) == IF v < lo THEN lo ELSE IF v > hi THEN hi ELSE v

MinScale == 100
MaxScale == 5000

handleWheel(deltaY, mouse) ==
  /\ CanvasReachable
  /\ inputs > 0
  /\ LET newScale == Clamp(transform.s - deltaY, MinScale, MaxScale)
         boardX == mouse.x - transform.x
         boardY == mouse.y - transform.y
     IN transform' =
          IF impl = "A"
          THEN IF focusModeId # Null THEN transform
               ELSE [transform EXCEPT !.s = newScale]
          ELSE [x |-> mouse.x - (boardX * newScale) \div transform.s,
                y |-> mouse.y - (boardY * newScale) \div transform.s,
                s |-> newScale]
  /\ inputs' = inputs - 1
  /\ UNCHANGED <<impl, activeSection, boardVars, pointerVars, deletingIds, wizardVars,
                 timers, scanVars, idVars>>

ZoomStep == 200

ZoomInUnclamped ==
  /\ OnBoard
  /\ inputs > 0
  /\ transform' = [transform EXCEPT !.s = transform.s + ZoomStep]
  /\ inputs' = inputs - 1
  /\ UNCHANGED <<impl, activeSection, boardVars, pointerVars, deletingIds, wizardVars,
                 timers, scanVars, idVars>>

ZoomIn ==
  /\ OnBoard
  /\ inputs > 0
  /\ transform' = [transform EXCEPT
                     !.s = IF transform.s + ZoomStep < MaxScale
                           THEN transform.s + ZoomStep ELSE MaxScale]
  /\ inputs' = inputs - 1
  /\ UNCHANGED <<impl, activeSection, boardVars, pointerVars, deletingIds, wizardVars,
                 timers, scanVars, idVars>>

ZoomOut ==
  /\ OnBoard
  /\ inputs > 0
  /\ transform' = [transform EXCEPT
                     !.s = IF transform.s - ZoomStep > MinScale
                           THEN transform.s - ZoomStep ELSE MinScale]
  /\ inputs' = inputs - 1
  /\ UNCHANGED <<impl, activeSection, boardVars, pointerVars, deletingIds, wizardVars,
                 timers, scanVars, idVars>>

ResetView ==
  /\ OnBoard
  /\ transform' = InitialTransform
  /\ UNCHANGED <<impl, activeSection, boardVars, pointerVars, deletingIds, wizardVars,
                 timers, scanVars, idVars, inputs>>

----------------------------------------------------------------------------
(* The link gesture *)

toggleLinkMenu(id) ==
  /\ Pressable(id)
  /\ Released
  /\ activeLinkMenuId' = IF activeLinkMenuId = id THEN Null ELSE id
  /\ UNCHANGED <<impl, activeSection, boardVars, selectedId, draggingId,
                 pendingLinkStart, activeLinkVariant, deletingIds, transform, isPanning,
                 focusModeId, wizardVars, timers, scanVars, idVars, inputs>>

handleStartLink(id, variant) ==
  /\ OnBoard
  /\ id \in Ids(boardItems)
  /\ activeLinkMenuId = id                      \* the menu's buttons are rendered
  /\ pendingLinkStart' = id
  /\ activeLinkVariant' = variant
  /\ activeLinkMenuId' = Null
  /\ UNCHANGED <<impl, activeSection, boardVars, selectedId, draggingId, deletingIds,
                 transform, isPanning, focusModeId, wizardVars, timers, scanVars,
                 idVars, inputs>>

\* the link a press on node id completes
PendingLinkDefault(id) == Link(RandomLinkId(nextLink + 1), pendingLinkStart, id, "critical")
PendingLink(id) == Link(RandomLinkId(nextLink + 1), pendingLinkStart, id, activeLinkVariant)

----------------------------------------------------------------------------
(* Pointer events on the canvas *)

\* handleMouseDown(e) on the empty canvas
MouseDownCanvasNoReturn(button) ==
  /\ CanvasReachable
  /\ IF button = 0
     THEN /\ pendingLinkStart' = Null
          /\ isPanning' = TRUE
          /\ selectedId' = Null
          /\ activeLinkMenuId' = Null
          /\ focusModeId' = Null
     ELSE UNCHANGED <<pendingLinkStart, isPanning, selectedId, activeLinkMenuId,
                      focusModeId>>
  /\ UNCHANGED <<impl, activeSection, boardVars, draggingId, activeLinkVariant,
                 deletingIds, transform, wizardVars, timers, scanVars, idVars, inputs>>

MouseDownCanvas(button) ==
  /\ CanvasReachable
  /\ IF button = 0
     THEN IF pendingLinkStart # Null
          THEN /\ pendingLinkStart' = Null
               /\ UNCHANGED <<isPanning, selectedId, activeLinkMenuId, focusModeId>>
          ELSE /\ isPanning' = TRUE
               /\ selectedId' = Null
               /\ activeLinkMenuId' = Null
               /\ focusModeId' = Null
               /\ UNCHANGED pendingLinkStart
     ELSE UNCHANGED <<pendingLinkStart, isPanning, selectedId, activeLinkMenuId,
                      focusModeId>>
  /\ UNCHANGED <<impl, activeSection, boardVars, draggingId, activeLinkVariant,
                 deletingIds, transform, wizardVars, timers, scanVars, idVars, inputs>>

\* handleMouseDown(e, id) on a node, while a link is pending
MouseDownLinkingSelf(id) ==
  /\ Pressable(id)
  /\ pendingLinkStart # Null
  /\ Len(boardLinks) < MaxLinks /\ nextLink < MaxRandom
  /\ boardLinks' = Append(boardLinks, PendingLink(id))
  /\ nextLink' = nextLink + 1
  /\ pendingLinkStart' = Null
  /\ UNCHANGED <<impl, activeSection, boardItems, selectedId, draggingId,
                 activeLinkVariant, activeLinkMenuId, deletingIds, transform, isPanning,
                 focusModeId, wizardVars, timers, scanVars, nextNode, nextBlock, inputs>>

MouseDownLinking(id) ==
  /\ Pressable(id)
  /\ pendingLinkStart # Null
  /\ IF pendingLinkStart # id
     THEN /\ Len(boardLinks) < MaxLinks /\ nextLink < MaxRandom
          /\ LET l == Append(boardLinks, PendingLink(id))
             IN /\ boardLinks' = l
                /\ boardItems' = IF impl = "A" THEN boardItems
                                 ELSE SetBoardLinksB(Board, Board, l).items
          /\ nextLink' = nextLink + 1
     ELSE UNCHANGED <<boardVars, nextLink>>
  /\ pendingLinkStart' = Null
  /\ UNCHANGED <<impl, activeSection, selectedId, draggingId, activeLinkVariant,
                 activeLinkMenuId, deletingIds, transform, isPanning, focusModeId,
                 wizardVars, timers, scanVars, nextNode, nextBlock, inputs>>

\* handleMouseDown(e, id) on a node, no link pending
MouseDownNodeUnlocked(id) ==
  /\ Pressable(id)
  /\ pendingLinkStart = Null
  /\ selectedId' = id
  /\ activeLinkMenuId' = Null
  /\ draggingId' = id
  /\ UNCHANGED <<impl, activeSection, boardVars, pendingLinkStart, activeLinkVariant,
                 deletingIds, transform, isPanning, focusModeId, wizardVars, timers,
                 scanVars, idVars, inputs>>

MouseDownNode(id) ==
  /\ Pressable(id)
  /\ pendingLinkStart = Null
  /\ selectedId' = id
  /\ activeLinkMenuId' = Null
  /\ draggingId' = IF Find(boardItems, id).isLocked THEN draggingId ELSE id
  /\ UNCHANGED <<impl, activeSection, boardVars, pendingLinkStart, activeLinkVariant,
                 deletingIds, transform, isPanning, focusModeId, wizardVars, timers,
                 scanVars, idVars, inputs>>

handleMouseDown(id, button) ==
  IF id = Null THEN MouseDownCanvas(button)
  ELSE MouseDownLinking(id) \/ MouseDownNode(id)

\* one pointer move by d since the last pointer event
MovedItem(item, d) ==
  [item EXCEPT !.x = item.x + (d.dx * 1000) \div transform.s,
               !.y = item.y + (d.dy * 1000) \div transform.s]

handleContainerMouseMove(d) ==
  /\ CanvasReachable
  /\ inputs > 0
  /\ IF isPanning /\ focusModeId = Null
     THEN /\ transform' = [transform EXCEPT !.x = transform.x + d.dx,
                                            !.y = transform.y + d.dy]
          /\ UNCHANGED boardVars
     ELSE /\ draggingId # Null
          /\ LET moved == [i \in DOMAIN boardItems |->
                              IF boardItems[i].id = draggingId
                              THEN MovedItem(boardItems[i], d) ELSE boardItems[i]]
             IN /\ boardItems' = IF impl = "A" THEN moved
                                 ELSE SetBoardItemsB(Board, Board, moved).items
                /\ boardLinks' = IF impl = "A" THEN boardLinks
                                 ELSE SetBoardItemsB(Board, Board, moved).links
          /\ UNCHANGED transform
  /\ inputs' = inputs - 1
  /\ UNCHANGED <<impl, activeSection, pointerVars, deletingIds, wizardVars, timers,
                 scanVars, idVars>>

\* a release that would end the drag and leave the pan going
handleContainerMouseUpDragOnly ==
  /\ OnBoard
  /\ draggingId' = Null
  /\ UNCHANGED <<impl, activeSection, boardVars, selectedId, pendingLinkStart,
                 activeLinkVariant, activeLinkMenuId, deletingIds, transform, isPanning,
                 focusModeId, wizardVars, timers, scanVars, idVars, inputs>>

\* handleContainerMouseMove with nothing held (or a pan held in focus mode and no
\* node): neither of its two branches is taken
handleContainerMouseMoveIdle(d) ==
  /\ CanvasReachable
  /\ inputs > 0
  /\ ~(isPanning /\ focusModeId = Null)
  /\ draggingId = Null
  /\ inputs' = inputs - 1
  /\ UNCHANGED <<impl, activeSection, boardVars, pointerVars, deletingIds, transform,
                 wizardVars, timers, scanVars, idVars>>

\* onMouseUp and onMouseLeave of the canvas
handleContainerMouseUp ==
  /\ OnBoard
  /\ draggingId' = Null
  /\ isPanning' = FALSE
  /\ UNCHANGED <<impl, activeSection, boardVars, selectedId, pendingLinkStart,
                 activeLinkVariant, activeLinkMenuId, deletingIds, transform,
                 focusModeId, wizardVars, timers, scanVars, idVars, inputs>>

\* a click on a rendered link: onClick of its <g>, after the press and release on
\* the canvas underneath have been handled
SelectLink(linkId) ==
  /\ CanvasReachable
  /\ Released
  /\ pendingLinkStart = Null /\ activeLinkMenuId = Null /\ focusModeId = Null
  /\ \E i \in DOMAIN boardLinks :
       /\ boardLinks[i].id = linkId
       /\ boardLinks[i].fromId \in Ids(boardItems)
       /\ boardLinks[i].toId \in Ids(boardItems)
  /\ selectedId' = linkId
  /\ UNCHANGED <<impl, activeSection, boardVars, draggingId, pendingLinkStart,
                 activeLinkVariant, activeLinkMenuId, deletingIds, transform, isPanning,
                 focusModeId, wizardVars, timers, scanVars, idVars, inputs>>

----------------------------------------------------------------------------
(* Sections: App mounts one of them at a time *)

\* useState initialisers of a PlanningBoard that mounts
BoardMountState ==
  /\ selectedId' = Null
  /\ draggingId' = Null
  /\ pendingLinkStart' = Null
  /\ activeLinkVariant' = "critical"
  /\ activeLinkMenuId' = Null
  /\ deletingIds' = {}
  /\ transform' = InitialTransform
  /\ isPanning' = FALSE
  /\ focusModeId' = Null
  /\ isTaskWizardOpen' = FALSE
  /\ wizardTaskName' = ""
  /\ wizardGoalId' = NoGoal
  /\ wizardNewGoalName' = ""
  /\ wizardSourceId' = Null

\* a PlanningBoard that unmounts leaves its timers behind; their state setters of
\* the unmounted component do nothing
Orphaned(ts) == [i \in DOMAIN ts |-> [ts[i] EXCEPT !.live = FALSE]]

setActiveSection(section) ==
  /\ section \in Sections
  /\ section # activeSection
  /\ activeSection' = section
  /\ IF activeSection = "planning"
     THEN BoardMountState /\ timers' = Orphaned(timers)
     ELSE UNCHANGED <<pointerVars, deletingIds, transform, wizardVars, timers>>
  /\ IF activeSection = "scan"
     THEN blocks' = INITIAL_BLOCKS /\ contextMenu' = Null
     ELSE UNCHANGED scanVars
  /\ UNCHANGED <<impl, boardVars, idVars, inputs>>

----------------------------------------------------------------------------
(* The document scanner *)

OnScanner == activeSection = "scan"
BlockTags == ItemTypes

addBlock(type) ==
  /\ OnScanner
  /\ Len(blocks) < MaxBlocks /\ nextBlock < MaxRandom
  /\ blocks' = Append(blocks,
                 [id |-> RandomBlockId(nextBlock + 1), type |-> type,
                  content |-> IF type = "text" THEN ""
                              ELSE "https://picsum.photos/400/200",
                  tag |-> Null])
  /\ nextBlock' = nextBlock + 1
  /\ contextMenu' = Null
  /\ UNCHANGED <<impl, activeSection, boardVars, pointerVars, deletingIds, transform,
                 wizardVars, timers, nextNode, nextLink, inputs>>

deleteBlock(id) ==
  /\ OnScanner
  /\ id \in Ids(blocks)
  /\ blocks' = SelectSeq(blocks, LAMBDA b : b.id # id)
  /\ contextMenu' = Null
  /\ UNCHANGED <<impl, activeSection, boardVars, pointerVars, deletingIds, transform,
                 wizardVars, timers, idVars, inputs>>

handleRightClick(blockId) ==
  /\ OnScanner
  /\ blockId \in Ids(blocks)
  /\ contextMenu' = blockId
  /\ UNCHANGED <<impl, activeSection, boardVars, pointerVars, deletingIds, transform,
                 wizardVars, timers, blocks, idVars, inputs>>

\* tag: one of BlockTags, or Null for "untag"
handleTag(tag) ==
  /\ OnScanner
  /\ contextMenu # Null
  /\ blocks' = [i \in DOMAIN blocks |->
                  IF blocks[i].id = contextMenu THEN [blocks[i] EXCEPT !.tag = tag]
                  ELSE blocks[i]]
  /\ contextMenu' = Null
  /\ UNCHANGED <<impl, activeSection, boardVars, pointerVars, deletingIds, transform,
                 wizardVars, timers, idVars, inputs>>

TagType(tag) ==
  CASE tag = "sticky"    -> "sticky"
    [] tag = "image"     -> "image"
    [] tag = "goal"      -> "goal"
    [] tag = "objective" -> "objective"
    [] OTHER             -> "idea-strip"

\* the n-th tagged block lands on a grid of four columns, 220 apart, from (100, 100)
ScanColumns == 4
ScanStep == 220
ScanOrigin == 100

\* a sync that makes a node of every block, tagged or not
RECURSIVE ScanBatchEveryBlock(_, _, _)
ScanBatchEveryBlock(bs, n, firstLink) ==
  IF n = 0
  THEN [items |-> <<>>, links |-> <<>>, lastTaskItemId |-> Null]
  ELSE LET sofar == ScanBatchEveryBlock(bs, n - 1, firstLink)
           block == bs[n]
           k == Len(sofar.items)
           newItem == Item(ScanId(block.id), TagType(block.tag), block.content,
                           ScanOrigin + (k % ScanColumns) * ScanStep,
                           ScanOrigin + (k \div ScanColumns) * ScanStep)
           lastTask == IF block.tag = "sticky" THEN newItem.id ELSE sofar.lastTaskItemId
       IN [items |-> Append(sofar.items, newItem),
           links |-> IF block.tag = "image" /\ lastTask # Null
                     THEN Append(sofar.links,
                            Link("link-" \o RandomLinkId(firstLink + Len(sofar.links)),
                                 lastTask, newItem.id, "neutral"))
                     ELSE sofar.links,
           lastTaskItemId |-> lastTask]

\* handleSyncToBoard over the first n blocks: the batch built so far
RECURSIVE ScanBatch(_, _, _)
ScanBatch(bs, n, firstLink) ==
  IF n = 0
  THEN [items |-> <<>>, links |-> <<>>, lastTaskItemId |-> Null]
  ELSE LET sofar == ScanBatch(bs, n - 1, firstLink)
           block == bs[n]
           k == Len(sofar.items)
           newItem == Item(ScanId(block.id), TagType(block.tag), block.content,
                           ScanOrigin + (k % ScanColumns) * ScanStep,
                           ScanOrigin + (k \div ScanColumns) * ScanStep)
           lastTask == IF block.tag = "sticky" THEN newItem.id ELSE sofar.lastTaskItemId
       IN IF block.tag = Null THEN sofar
          ELSE [items |-> Append(sofar.items, newItem),
                links |-> IF block.tag = "image" /\ lastTask # Null
                          THEN Append(sofar.links,
                                 Link("link-" \o RandomLinkId(firstLink + Len(sofar.links)),
                                      lastTask, newItem.id, "neutral"))
                          ELSE sofar.links,
                lastTaskItemId |-> lastTask]

\* handleSyncToBoard, then App's onSync.  part_000's onSync reads
\* activeRoom.items: with no room it throws, and neither the rooms nor the
\* section change
handleSyncToBoard ==
  /\ OnScanner
  /\ IF NoActiveRoom
     THEN UNCHANGED <<boardVars, nextLink, activeSection, blocks, contextMenu>>
     ELSE /\ LET batch == ScanBatch(blocks, Len(blocks), nextLink + 1)
             IN /\ Len(boardItems) + Len(batch.items) <= MaxItems
                /\ Len(boardLinks) + Len(batch.links) <= MaxLinks
                /\ nextLink + Len(batch.links) <= MaxRandom
                /\ boardItems' = boardItems \o batch.items
                /\ boardLinks' = boardLinks \o batch.links
                /\ nextLink' = nextLink + Len(batch.links)
          /\ activeSection' = "planning"
          /\ blocks' = INITIAL_BLOCKS
          /\ contextMenu' = Null
  /\ UNCHANGED <<impl, pointerVars, deletingIds, transform, wizardVars, timers,
                 nextNode, nextBlock, inputs>>

----------------------------------------------------------------------------
(* The system *)

\* one event of the user, handled to completion
User(name, Handler) ==
  /\ steps > 0
  /\ Handler
  /\ UNCHANGED roomVars
  /\ steps' = steps - 1
  /\ event' = name

\* a timer callback runs between two events
Timeout == TimerFires /\ UNCHANGED <<roomVars, steps>> /\ event' = "TimerFires"

\* the branch of handleMouseDown(e) a press on the empty canvas takes
CanvasPress(button) ==
  IF button = 0 /\ pendingLinkStart # Null THEN "MouseDownCancel" ELSE "MouseDownCanvas"

\* the branch of handleMouseDown(e, id) a press on a node takes; the handler reads
\* e.button on the empty canvas only
NodePress == IF pendingLinkStart # Null THEN "MouseDownLinking" ELSE "MouseDownNode"

Next ==
  \/ \E type \in ToolbarTypes : User("handleAddItem", handleAddItem(type))
  \/ \E id \in Ids(boardItems), v \in Variants :
       User("createConnectedTask", createConnectedTask(id, v))
  \/ \E id \in Ids(boardItems) : User("createConnectedIdea", createConnectedIdea(id))
  \/ User("openTaskWizard", openTaskWizard(Null))
  \/ User("WizardType", WizardType)
  \/ User("WizardCancel", WizardCancel)
  \/ User("handleCreateLinkedTask", handleCreateLinkedTask)
  \/ \E id \in Ids(boardItems), c \in TypedText :
       User("handleUpdateItem", handleUpdateItem(id, c))
  \/ \E id \in Ids(boardItems) : User("handleDeleteItem", handleDeleteItem(id))
  \/ Timeout
  \/ User("ClearBoard", ClearBoard)
  \/ \E dy \in WheelDeltas, m \in MousePoints : User("handleWheel", handleWheel(dy, m))
  \/ User("ZoomIn", ZoomIn)
  \/ User("ZoomOut", ZoomOut)
  \/ User("ResetView", ResetView)
  \/ \E id \in Ids(boardItems) : User("toggleLinkMenu", toggleLinkMenu(id))
  \/ \E id \in Ids(boardItems), v \in Variants :
       User("handleStartLink", handleStartLink(id, v))
  \/ \E b \in Buttons : User(CanvasPress(b), handleMouseDown(Null, b))
  \/ \E id \in Ids(boardItems) : User(NodePress, handleMouseDown(id, 0))
  \/ \E d \in PointerDeltas : User("handleContainerMouseMove", handleContainerMouseMove(d))
  \/ User("handleContainerMouseUp", handleContainerMouseUp)
  \/ \E id \in Ids(boardItems) : User("handleDoubleClickNode", handleDoubleClickNode(id))
  \/ User("exitFocusMode", exitFocusMode)
  \/ \E l \in Ids(boardLinks) : User("SelectLink", SelectLink(l))
  \/ \E s \in Sections : User("setActiveSection", setActiveSection(s))
  \/ \E type \in {"text", "image"} : User("addBlock", addBlock(type))
  \/ \E id \in Ids(blocks) : User("deleteBlock", deleteBlock(id))
  \/ \E id \in Ids(blocks) : User("handleRightClick", handleRightClick(id))
  \/ \E tag \in BlockTags \cup {Null} : User("handleTag", handleTag(tag))
  \/ User("handleSyncToBoard", handleSyncToBoard)

Spec == Init /\ [][Next]_vars

\* the timer of handleDeleteItem fires once its delay has elapsed
FairSpec == Spec /\ WF_vars(Timeout)
----------------------------------------------------------------------------
(* Claims *)

Touches(l, id) == l.fromId = id \/ l.toId = id

\* C1 Cascade integrity: whenever the deferred removal callback of deleteNode(id)
\* runs, the link collection it leaves holds no link with fromId = id or toId = id,
\* in both implementations.
C1_CascadeIntegrity ==
  [][TimerFires =>
       \A i \in DOMAIN boardLinks' : ~Touches(boardLinks'[i], Head(timers).id)]_vars

\* the callback of deleteNode("2"), the node of the initial board with three
\* incoming links and one outgoing link, has run on the rooms implementation
C1_Witness ==
  /\ impl = "B"
  /\ event = "TimerFires"
  /\ boardLinks = <<>>
  /\ "2" \notin deletingIds

\* C2 deleteNode(id) on an existing node marks id as deleting, and once the deferred
\* callback has run the node is absent from the node collection and id is not in
\* the deleting set, in both implementations.
C2_DeleteRemovesNode ==
  [][/\ \A id \in Ids(boardItems) : handleDeleteItem(id) => id \in deletingIds'
     /\ TimerFires => /\ ~Has(boardItems', Head(timers).id)
                      /\ Head(timers).id \notin deletingIds']_vars

\* C2, the liveness half: under fairness of the timer every deleteNode(id) is
\* eventually followed by a state without the node
C2_DeleteEventuallyRemoves ==
  \A id \in {"1", "2", "3", "4", "5"} :
    (id \in deletingIds) ~> ~Has(boardItems, id)

\* C3 Referential integrity: in every reachable state both endpoints of every link
\* resolve to a node of the node collection.
C3_ReferentialIntegrity ==
  \A i \in DOMAIN boardLinks :
    /\ boardLinks[i].fromId \in Ids(boardItems)
    /\ boardLinks[i].toId \in Ids(boardItems)

\* the last node and the last link of a board
LastItem(items) == items[Len(items)]
LastLink(links) == links[Len(links)]

\* the step added one node and one link from sourceId to it and kept the rest
AddedChild(sourceId) ==
  /\ Len(boardItems') = Len(boardItems) + 1
  /\ SubSeq(boardItems', 1, Len(boardItems)) = boardItems
  /\ Len(boardLinks') = Len(boardLinks) + 1
  /\ SubSeq(boardLinks', 1, Len(boardLinks)) = boardLinks
  /\ LastLink(boardLinks').fromId = sourceId
  /\ LastLink(boardLinks').toId = LastItem(boardItems').id
  /\ LastItem(boardItems').id \notin Ids(boardItems)

\* C4 Create-connected-task and create-connected-idea are one atomic update: right
\* after the operation the node collection holds the new child and the link
\* collection exactly one new link from the source to it, every earlier node and
\* link still there, in both implementations.
C4_ConnectedChildAtomic ==
  [][\A id \in Ids(boardItems) :
       /\ \A v \in Variants : createConnectedTask(id, v) => AddedChild(id)
       /\ createConnectedIdea(id) => AddedChild(id)]_vars

\* C5 Mutations made between deleteNode(id) and its deferred callback are kept: the
\* callback removes node id and the links touching id and nothing else, in both
\* implementations.
C5_WindowMutationsKept ==
  [][TimerFires =>
       /\ RemoveItem(boardItems', Head(timers).id)
            = RemoveItem(boardItems, Head(timers).id)
       /\ SelectSeq(boardLinks', LAMBDA l : ~Touches(l, Head(timers).id))
            = SelectSeq(boardLinks, LAMBDA l : ~Touches(l, Head(timers).id))]_vars

\* C6 deleteNode(id) clears the selection and the focus target in the step of the
\* call: if selectedId = id (focusModeId = id) at the call, it is null right after,
\* in both implementations.
C6_DeleteClearsSelection ==
  [][\A id \in Ids(boardItems) :
       handleDeleteItem(id) =>
         /\ selectedId = id => selectedId' = Null
         /\ focusModeId = id => focusModeId' = Null]_vars

\* C7 With a link pending from source with the variant chosen at handleStartLink, a
\* press on a node other than source appends exactly one link from source to the
\* pressed node with that variant at the end of the link collection and leaves no
\* link pending; nothing but a new handleStartLink changes the pending source or its
\* variant, and no duplicate check is made.
C7_PressCompletesLink ==
  [][/\ \A id \in Ids(boardItems) :
          (pendingLinkStart # Null /\ pendingLinkStart # id /\ handleMouseDown(id, 0)) =>
            /\ Len(boardLinks') = Len(boardLinks) + 1
            /\ SubSeq(boardLinks', 1, Len(boardLinks)) = boardLinks
            /\ LastLink(boardLinks').fromId = pendingLinkStart
            /\ LastLink(boardLinks').toId = id
            /\ LastLink(boardLinks').variant = activeLinkVariant
            /\ pendingLinkStart' = Null
     /\ \A id \in Ids(boardItems), v \in Variants :
          handleStartLink(id, v) => pendingLinkStart' = id /\ activeLinkVariant' = v
     /\ (pendingLinkStart' # Null /\ event' # "handleStartLink") =>
          /\ pendingLinkStart' = pendingLinkStart
          /\ activeLinkVariant' = activeLinkVariant]_vars

\* a gesture started on node "3" with the variant neutral has been completed on
\* node "2", next to the link "l2" of the initial board between the same nodes with
\* the same variant
C7_Witness ==
  /\ event = "MouseDownLinking"
  /\ pendingLinkStart = Null
  /\ Len(boardLinks) = Len(INITIAL_BOARD_LINKS) + 1
  /\ boardLinks[2] = Link("l2", "3", "2", "neutral")
  /\ LastLink(boardLinks) = Link(RandomLinkId(1), "3", "2", "neutral")

\* C8 With a link pending, a primary-button press on the empty canvas or a press on
\* the source node cancels the gesture: pendingLinkStart becomes null and the nodes,
\* the links, the selection, the focus target and the transform stay as they are.
C8_CancelKeepsBoard ==
  [][(pendingLinkStart # Null /\
        (handleMouseDown(Null, 0) \/ handleMouseDown(pendingLinkStart, 0))) =>
       /\ pendingLinkStart' = Null
       /\ UNCHANGED <<boardItems, boardLinks, selectedId, focusModeId, transform>>]_vars

\* a gesture has been cancelled on the empty canvas with a node selected and in
\* focus: both are kept
C8_Witness ==
  /\ event = "MouseDownCancel"
  /\ pendingLinkStart = Null
  /\ selectedId # Null
  /\ focusModeId # Null
  /\ ~isPanning

\* C9 The pointer states exclude each other: in every reachable state at most one of
\* panning, dragging, link pending and focus mode is active.
C9_PointerStatesExclusive ==
  Cardinality({k \in 1..4 : <<isPanning, draggingId # Null, pendingLinkStart # Null,
                              focusModeId # Null>>[k]}) <= 1

\* C10 While a link is pending no press starts a pan or a drag or changes the
\* selection: a press on the empty canvas or on any node taken with a link pending
\* finds isPanning false and draggingId null and leaves them so, and leaves
\* selectedId as it is.
C10_PendingPressNoGesture ==
  [][\A id \in Ids(boardItems) \cup {Null}, b \in Buttons :
       (pendingLinkStart # Null /\ handleMouseDown(id, b)) =>
         /\ ~isPanning /\ ~isPanning'
         /\ draggingId = Null /\ draggingId' = Null
         /\ selectedId' = selectedId]_vars

\* a press on a node has completed a link while a third node was selected: the
\* selection is still that node and nothing is dragged
C10_Witness ==
  /\ event = "MouseDownLinking"
  /\ nextLink = 1
  /\ selectedId \in Ids(boardItems)
  /\ ~Touches(LastLink(boardLinks), selectedId)
  /\ draggingId = Null
  /\ ~isPanning

----------------------------------------------------------------------------
(* Locked nodes.  No handler sets isLocked; a locked node reaches the board of *)
(* B from the rooms it reads from localStorage at start.                      *)

\* the initial room as stored with node "2" locked
StoredItems ==
  [i \in DOMAIN INITIAL_BOARD_ITEMS |->
     IF INITIAL_BOARD_ITEMS[i].id = "2"
     THEN [INITIAL_BOARD_ITEMS[i] EXCEPT !.isLocked = TRUE]
     ELSE INITIAL_BOARD_ITEMS[i]]

PointerInit ==
  Mounted("B", StoredItems, INITIAL_BOARD_LINKS, MaxPointerSteps, MaxPointerInputs)

\* press, move and release events on the board, and the navigation to it
PointerNext ==
  \/ \E s \in Sections : User("setActiveSection", setActiveSection(s))
  \/ \E b \in Buttons : User(CanvasPress(b), handleMouseDown(Null, b))
  \/ \E id \in Ids(boardItems) : User(NodePress, handleMouseDown(id, 0))
  \/ \E d \in PointerDeltas : User("handleContainerMouseMove", handleContainerMouseMove(d))
  \/ User("handleContainerMouseUp", handleContainerMouseUp)

PointerSpec == PointerInit /\ [][PointerNext]_vars

Locked(items, id) == \E i \in DOMAIN items : items[i].id = id /\ items[i].isLocked

\* C11 Locked nodes are selectable but not draggable: a press on a locked node, no
\* link pending, selects it and starts no drag (draggingId is left as it is, and it
\* is never the locked node), and no press, move or release changes the x or y of
\* a node that is locked before and after it.
C11_LockedNodesStay ==
  [][/\ \A id \in Ids(boardItems) :
          (pendingLinkStart = Null /\ Locked(boardItems, id) /\ handleMouseDown(id, 0)) =>
            /\ selectedId' = id
            /\ draggingId' = draggingId
            /\ draggingId' # id
     /\ \A i \in DOMAIN boardItems :
          (i \in DOMAIN boardItems' /\ boardItems'[i].id = boardItems[i].id
             /\ boardItems[i].isLocked /\ boardItems'[i].isLocked) =>
            /\ boardItems'[i].x = boardItems[i].x
            /\ boardItems'[i].y = boardItems[i].y]_vars

\* another node has been pressed and dragged, then the locked node "2" has been
\* pressed and the pointer moved: "2" is selected and where it was
C11_Witness ==
  /\ event = "handleContainerMouseMove"
  /\ inputs = 0
  /\ selectedId = "2"
  /\ Locked(boardItems, "2")
  /\ draggingId \notin {Null, "2"}
  /\ Find(boardItems, "2").x = 600 /\ Find(boardItems, "2").y = 300

\* C12 While focus mode is active neither a pointer move nor a wheel event changes
\* the viewport transform, in both implementations.
C12_FocusSuspendsCamera ==
  [][(focusModeId # Null /\
        ((\E d \in PointerDeltas : handleContainerMouseMove(d)) \/
         (\E dy \in WheelDeltas, m \in MousePoints : handleWheel(dy, m)))) =>
       transform' = transform]_vars

----------------------------------------------------------------------------
(* The viewport on its own: the events that read or write the transform *)

ViewInit ==
  \E i \in {"A", "B"} :
    Mounted(i, INITIAL_BOARD_ITEMS, INITIAL_BOARD_LINKS, MaxViewSteps, MaxViewInputs)

ViewNext ==
  \/ \E s \in Sections : User("setActiveSection", setActiveSection(s))
  \/ \E dy \in WheelDeltas, m \in MousePoints : User("handleWheel", handleWheel(dy, m))
  \/ User("ZoomIn", ZoomIn)
  \/ User("ZoomOut", ZoomOut)
  \/ User("ResetView", ResetView)
  \/ \E type \in ToolbarTypes : User("handleAddItem", handleAddItem(type))
  \/ \E b \in Buttons : User(CanvasPress(b), handleMouseDown(Null, b))
  \/ \E d \in PointerDeltas : User("handleContainerMouseMove", handleContainerMouseMove(d))
  \/ User("handleContainerMouseUp", handleContainerMouseUp)

ViewSpec == ViewInit /\ [][ViewNext]_vars

\* C13 The viewport scale stays within [0.1, 5.0] in every reachable state, after
\* wheel events, toolbar zoom clicks, reset view and focus-mode entries.
C13_ScaleClamped == transform.s >= MinScale /\ transform.s <= MaxScale

\* a zoom-in click made above 4.8 has been stopped at 5.0
C13_Witness ==
  /\ event = "ZoomIn"
  /\ transform.s = MaxScale
  /\ inputs = MaxViewInputs - 2

Abs(v) == IF v < 0 THEN -v ELSE v

\* the board point under screen coordinate c at offset o and scale s is under c at
\* offset o2 and scale s2 as well, to within one screen pixel:
\* (c - o) / s = (c - o2) / s2
SamePixel(c, o, s, o2, s2) == Abs((c - o2) * s - (c - o) * s2) < s

\* C14 Zoom-to-cursor invariance: after every wheel event outside focus mode the
\* board point that was under the cursor is at the same screen pixel, in both
\* implementations of handleWheel.
C14_ZoomToCursor ==
  [][\A dy \in WheelDeltas, m \in MousePoints :
       (focusModeId = Null /\ handleWheel(dy, m)) =>
         /\ SamePixel(m.x, transform.x, transform.s, transform'.x, transform'.s)
         /\ SamePixel(m.y, transform.y, transform.s, transform'.y, transform'.s)]_vars

\* node id of items is drawn with its centre (position plus half its type's size)
\* at the middle of the canvas under transform t, to within one screen pixel
Centred(items, t, id) ==
  LET item == Find(items, id)
      dims == getItemDimensions(item.type)
  IN /\ Abs(((2 * item.x + dims.w) * t.s) \div 2000 + t.x - RectWidth \div 2) <= 1
     /\ Abs(((2 * item.y + dims.h) * t.s) \div 2000 + t.y - RectHeight \div 2) <= 1

\* the step has entered focus mode on node id
Focused(id) ==
  /\ focusModeId' = id
  /\ selectedId' = id
  /\ transform'.s = 1500
  /\ Centred(boardItems', transform', id)

\* C15 Entering focus mode on a node, by double-click or by adding an objective,
\* sets focusModeId and selectedId to the node, the scale to 1.5 and the offset so
\* that the centre of the node is at the middle of the canvas.
C15_FocusCentresNode ==
  [][/\ \A id \in Ids(boardItems) : handleDoubleClickNode(id) => Focused(id)
     /\ handleAddItem("objective") => Focused(LastItem(boardItems').id)]_vars

\* C16 Focus mode is left by the exit action or by a primary-button press on the
\* empty canvas: after either focusModeId is null and the transform is what it was
\* just before, also when a link is pending at the press.
C16_ExitKeepsCamera ==
  [][(focusModeId # Null /\ (exitFocusMode \/ handleMouseDown(Null, 0))) =>
       /\ focusModeId' = Null
       /\ transform' = transform]_vars

\* C17: handleAddItem(type) appends exactly one node of that type, with the
\* type's default content, at the end of the node collection; every node that
\* was there keeps its place and its fields, the links are unchanged and the
\* new node is selected; focus mode is entered on the new node when the type
\* is objective, and focusModeId is unchanged for every other type.
C17_AddAppendsOne ==
  [][\A type \in ToolbarTypes : handleAddItem(type) =>
       /\ Len(boardItems') = Len(boardItems) + 1
       /\ SubSeq(boardItems', 1, Len(boardItems)) = boardItems
       /\ LastItem(boardItems').type = type
       /\ LastItem(boardItems').content = DefaultContent(type)
       /\ boardLinks' = boardLinks
       /\ selectedId' = LastItem(boardItems').id
       /\ IF type = "objective"
          THEN focusModeId' = LastItem(boardItems').id
          ELSE focusModeId' = focusModeId]_vars

\* a sticky note added while focus mode is on an objective added before it
C17_Witness ==
  /\ event = "handleAddItem"
  /\ LastItem(boardItems).type = "sticky"
  /\ LastItem(boardItems).content = "Note"
  /\ selectedId = LastItem(boardItems).id
  /\ focusModeId # Null
  /\ focusModeId # selectedId
  /\ Find(boardItems, focusModeId).type = "objective"
  /\ Find(boardItems, focusModeId).content = "New Objective"

\* C18: handleUpdateItem(id, patch) merges the patch into the node whose id
\* matches and leaves every other node, the order of the nodes and the links
\* unchanged; for an id no node has, the map over the nodes gives back the
\* nodes as they were.
C18_UpdatePatchesOne ==
  /\ [](\A id \in ({"no-such-node"} \cup Ids(INITIAL_BOARD_ITEMS)) \ Ids(boardItems) :
          \A c \in TypedText : UpdatedItems(boardItems, id, c) = boardItems)
  /\ [][\A id \in Ids(boardItems) : \A c \in TypedText :
          handleUpdateItem(id, c) =>
            /\ DOMAIN boardItems' = DOMAIN boardItems
            /\ \A i \in DOMAIN boardItems :
                 boardItems'[i] = IF boardItems[i].id = id
                                  THEN [boardItems[i] EXCEPT !.content = c]
                                  ELSE boardItems[i]
            /\ boardLinks' = boardLinks]_vars

\* a node edited on a board that has links and has lost one of its first nodes
C18_Witness ==
  /\ event = "handleUpdateItem"
  /\ Cardinality({i \in DOMAIN boardItems : boardItems[i].content \in TypedText}) = 1
  /\ boardLinks # <<>>
  /\ Ids(INITIAL_BOARD_ITEMS) \ Ids(boardItems) # {}

\* runs of the document scanner: the navigation to it and away from it, the
\* editing and tagging of its blocks and the sync to the board
ScanInit ==
  \E i \in {"A", "B"} : Mounted(i, INITIAL_BOARD_ITEMS, INITIAL_BOARD_LINKS, MaxScanSteps, 0)

ScanNext ==
  \/ \E s \in Sections : User("setActiveSection", setActiveSection(s))
  \/ \E type \in {"text", "image"} : User("addBlock", addBlock(type))
  \/ \E id \in Ids(blocks) : User("deleteBlock", deleteBlock(id))
  \/ \E id \in Ids(blocks) : User("handleRightClick", handleRightClick(id))
  \/ \E tag \in BlockTags \cup {Null} : User("handleTag", handleTag(tag))
  \/ User("handleSyncToBoard", handleSyncToBoard)

ScanSpec == ScanInit /\ [][ScanNext]_vars

\* C19: no two nodes of the node collection have the same id, in every
\* reachable state, also after the tagged blocks of the scanner document were
\* synced to the board more than once.
C19_UniqueNodeIds ==
  \A i, j \in DOMAIN boardItems : boardItems[i].id = boardItems[j].id => i = j

\* runs of the task wizard, which App.tsx alone renders: it is opened from the
\* toolbar, filled in, cancelled or submitted, and the board is cleared
WizardInit ==
  Mounted("A", INITIAL_BOARD_ITEMS, INITIAL_BOARD_LINKS, MaxWizardSteps, 0)

WizardNext ==
  \/ User("openTaskWizard", openTaskWizard(Null))
  \/ User("WizardType", WizardType)
  \/ User("WizardCancel", WizardCancel)
  \/ User("handleCreateLinkedTask", handleCreateLinkedTask)
  \/ User("ClearBoard", ClearBoard)

WizardSpec == WizardInit /\ [][WizardNext]_vars

\* C20: a submission of the task wizard appends one task node, and one goal
\* node after it exactly when "+ Create New Goal" is what the form asks for;
\* it appends a link source -> task exactly when a source resolves (the given
\* node if it is on the board, otherwise the first objective) and a link
\* task -> goal exactly when a goal, chosen or newly created, is the target;
\* the nodes and links that were there stay as they are.
C20_WizardSubmission ==
  [][handleCreateLinkedTask =>
       LET n == Len(boardItems)
           m == Len(boardLinks)
           requested == wizardGoalId = NewGoal
           given == wizardSourceId # Null /\ Has(boardItems, wizardSourceId)
           resolves == given \/ HasType(boardItems, "objective")
           source == IF given THEN wizardSourceId
                     ELSE FindType(boardItems, "objective").id
           added == SubSeq(boardItems', n + 1, Len(boardItems'))
           linked == SubSeq(boardLinks', m + 1, Len(boardLinks'))
           hasTarget == requested \/ wizardGoalId # NoGoal
           target == IF requested THEN added[2].id ELSE wizardGoalId
       IN /\ SubSeq(boardItems', 1, n) = boardItems
          /\ SubSeq(boardLinks', 1, m) = boardLinks
          /\ Len(added) = IF requested THEN 2 ELSE 1
          /\ added[1].type = "sticky"
          /\ requested => added[2].type = "goal"
          /\ Len(linked) = (IF resolves THEN 1 ELSE 0) + (IF hasTarget THEN 1 ELSE 0)
          /\ resolves => \E i \in DOMAIN linked :
                           linked[i].fromId = source /\ linked[i].toId = added[1].id
          /\ hasTarget => \E i \in DOMAIN linked :
                            linked[i].fromId = added[1].id /\ linked[i].toId = target]_vars

----------------------------------------------------------------------------
(* Placement.  Runs of the handlers that add a node, from the boards a run  *)
(* can start with: the initial board, and in part_000 the rooms it reads    *)
(* from localStorage, of which an empty one and a crowded one are taken.    *)

\* a room whose nodes leave no free place within the reach of both searches:
\* goals every LatticePitch units around one objective
LatticePitch == 430
LatticeWidth == 2 * LatticeReach + 1

CrowdedItems ==
  [n \in 1..(LatticeWidth * LatticeWidth) |->
     LET i == ((n - 1) % LatticeWidth) - LatticeReach
         j == ((n - 1) \div LatticeWidth) - LatticeReach
     IN Item("g" \o ToString(n), IF i = 0 /\ j = 0 THEN "objective" ELSE "goal",
             "stored", 500 + i * LatticePitch, 300 + j * LatticePitch)]

\* a room with a goal on each of the 45 cells below its one objective
FilledGridItems ==
  <<Item("o1", "objective", "stored", 1000, 1000)>> \o
  [n \in 1..(GridRows * Len(GridOffsets)) |->
     Item("c" \o ToString(n), "goal", "stored",
          GridCells(1000, 1000)[n].x, GridCells(1000, 1000)[n].y)]

StoredRooms ==
  {[items |-> INITIAL_BOARD_ITEMS, links |-> INITIAL_BOARD_LINKS],
   [items |-> FilledGridItems, links |-> <<>>],
   [items |-> <<>>, links |-> <<>>],
   [items |-> <<Item("s1", "sticky", "Note", 100, 100)>>, links |-> <<>>],
   [items |-> CrowdedItems, links |-> <<>>]}

PlaceInit ==
  \/ Mounted("A", INITIAL_BOARD_ITEMS, INITIAL_BOARD_LINKS, MaxPlaceSteps, 0)
  \/ \E room \in StoredRooms : Mounted("B", room.items, room.links, MaxPlaceSteps, 0)

\* the nodes whose link menu offers "connected task" or "connected idea"
MenuSources == {boardItems[i].id : i \in {j \in DOMAIN boardItems :
                                            boardItems[j].type \in {"objective", "sticky"}}}

PlaceNext ==
  \/ User("setActiveSection", setActiveSection("planning"))
  \/ \E type \in ToolbarTypes : User("handleAddItem", handleAddItem(type))
  \/ \E id \in MenuSources : User("toggleLinkMenu", toggleLinkMenu(id))
  \/ \E id \in MenuSources : \E v \in Variants :
       User("createConnectedTask", createConnectedTask(id, v))
  \/ \E id \in MenuSources : User("createConnectedIdea", createConnectedIdea(id))
  \/ User("openTaskWizard", openTaskWizard(Null))
  \/ User("WizardType", WizardType)
  \/ User("handleCreateLinkedTask", handleCreateLinkedTask)

PlaceSpec == PlaceInit /\ [][PlaceNext]_vars

\* the nodes a grid-below search starts from: the source of a connected task or
\* idea, and the first objective, which is the source the wizard falls back to
GridSources ==
  {i \in DOMAIN boardItems : boardItems[i].type \in {"objective", "sticky"}}

\* the sizes the callers of the grid-below search pass: task, idea, goal
GridSizes == {getItemDimensions(t) : t \in {"sticky", "idea-strip", "goal"}}

\* the kth cell of a row (k = 1..9) lies at x offset 0, +220, -220, +440, -440, ...
CellX(refX, k) == refX + (k \div 2) * 220 * (IF k % 2 = 0 THEN 1 ELSE -1)
CellY(refY, row) == refY + row * 250
Earlier(row1, k1, row2, k2) == row1 < row2 \/ (row1 = row2 /\ k1 < k2)

\* C21: in grid-below mode findBestPosition returns the first cell, in the order
\* rows 1..5 and within a row the x offsets 0, +220, -220, ..., +880, -880, that
\* overlaps no node: the cell returned overlaps nothing, every cell before it
\* overlaps some node, and it lies at y >= refY + 250.  Stated for every board
\* reached, every node a search can start from and every size it is asked for.
C21_GridBelowFirstFree ==
  \A i \in GridSources : \A d \in GridSizes :
    LET refX == boardItems[i].x
        refY == boardItems[i].y
        pos == findBestPosition(boardItems, refX, refY, d.w, d.h, "grid-below")
        free(row, k) == ~checkOverlap(boardItems, CellX(refX, k), CellY(refY, row),
                                      d.w, d.h, Null)
    IN (\E row \in 1..5 : \E k \in 1..9 : free(row, k)) =>
         /\ \E row \in 1..5 : \E k \in 1..9 :
              /\ pos = [x |-> CellX(refX, k), y |-> CellY(refY, row)]
              /\ free(row, k)
              /\ \A row1 \in 1..5 : \A k1 \in 1..9 :
                   Earlier(row1, k1, row, k) => ~free(row1, k1)
         /\ pos.y >= refY + 250

\* a connected task placed in the seventh cell of the first row, x offset -660,
\* the six cells before it overlapping the nodes of the initial board
C21_Witness ==
  /\ event = "createConnectedTask"
  /\ Has(boardItems, "1")
  /\ LastItem(boardItems).type = "sticky"
  /\ LastItem(boardItems).x = Find(boardItems, "1").x - 660
  /\ LastItem(boardItems).y = Find(boardItems, "1").y + 250
  /\ LastLink(boardLinks).fromId = "1"
  /\ LastLink(boardLinks).toId = LastItem(boardItems).id

\* the reference points of a spiral search: what handleAddItem passes for a
\* node of size d at the centre of the viewport, and the point (100, 100)
SpiralRefs(d) ==
  {[x |-> getViewportCenter(transform).x - d.w \div 2,
    y |-> getViewportCenter(transform).y - d.h \div 2],
   [x |-> 100, y |-> 100]}

ItemSizes == {getItemDimensions(t) : t \in ItemTypes}

\* C22: in spiral mode findBestPosition returns the first candidate of the
\* spiral sequence, k = 0..200, that overlaps no node, so the position returned
\* overlaps no node whenever one of the candidates is free; it returns the last
\* candidate only when every candidate overlaps some node.  Stated for every
\* board reached, the reference points above and the size of every node type.
C22_SpiralFirstFree ==
  \A d \in ItemSizes : \A ref \in SpiralRefs(d) :
    LET pos == findBestPosition(boardItems, ref.x, ref.y, d.w, d.h, "spiral")
        free(k) == LET c == SpiralCandidate(ref.x, ref.y, k)
                   IN ~checkOverlap(boardItems, c.x, c.y, d.w, d.h, Null)
    IN IF \E k \in 0..200 : free(k)
       THEN /\ ~checkOverlap(boardItems, pos.x, pos.y, d.w, d.h, Null)
            /\ \E k \in 0..200 : /\ pos = SpiralCandidate(ref.x, ref.y, k)
                                 /\ free(k)
                                 /\ \A j \in 0..(k - 1) : ~free(j)
       ELSE pos = SpiralCandidate(ref.x, ref.y, 200)

\* a second sticky added at the centre of a viewport whose centre is taken: it
\* lies on the spiral, away from the reference point, and overlaps no other node
C22_Witness ==
  /\ event = "handleAddItem"
  /\ LastItem(boardItems).type = "sticky"
  /\ checkOverlap(boardItems, 510, 310, 180, 180, LastItem(boardItems).id)
  /\ <<LastItem(boardItems).x, LastItem(boardItems).y>> # <<510, 310>>
  /\ ~checkOverlap(boardItems, LastItem(boardItems).x, LastItem(boardItems).y,
                   180, 180, LastItem(boardItems).id)

\* every candidate of a search from (refX, refY) overlaps some node: the 45 cells
\* of the grid in grid-below mode, and the 201 candidates of the spiral
Exhausted(items, refX, refY, width, height, mode) ==
  /\ mode = "grid-below" =>
       \A row \in 1..5 : \A k \in 1..9 :
         checkOverlap(items, CellX(refX, k), CellY(refY, row), width, height, Null)
  /\ \A k \in 0..200 :
       LET c == SpiralCandidate(refX, refY, k)
       IN checkOverlap(items, c.x, c.y, width, height, Null)

\* C23: placement never fails.  For every board reached, every starting point
\* and size and either mode, findBestPosition returns a coordinate, after 45
\* grid cells and 200 turns of the spiral at most; and handleAddItem,
\* createConnectedTask, createConnectedIdea and handleCreateLinkedTask leave
\* their node on the board each time they run, also when every candidate
\* position overlaps.
C23_PlacementNeverFails ==
  /\ [](\A d \in ItemSizes : \A mode \in {"spiral", "grid-below"} :
          \A ref \in SpiralRefs(d) \cup {[x |-> boardItems[i].x, y |-> boardItems[i].y] :
                                          i \in GridSources} :
            /\ findBestPosition(boardItems, ref.x, ref.y, d.w, d.h, mode) \in [x : Int, y : Int]
            /\ SpiralTurns(boardItems, ref.x, ref.y, d.w, d.h) \in 0..200
            /\ Len(GridCells(ref.x, ref.y)) = 45)
  /\ [][/\ \A type \in ToolbarTypes : handleAddItem(type) =>
              Len(boardItems') = Len(boardItems) + 1
        /\ \A id \in MenuSources : \A v \in Variants : createConnectedTask(id, v) =>
              Len(boardItems') = Len(boardItems) + 1
        /\ \A id \in MenuSources : createConnectedIdea(id) =>
              Len(boardItems') = Len(boardItems) + 1
        /\ handleCreateLinkedTask => Len(boardItems') > Len(boardItems)]_vars

Max(a, b) == IF a >= b THEN a ELSE b

\* the distance between the intervals [a, a + la] and [b, b + lb] of one axis,
\* negative when they intersect
Gap(a, la, b, lb) == Max(b - (a + la), a - (b + lb))

\* the box of a node: its position, its type and the size of its type
Box(item) ==
  [x |-> item.x, y |-> item.y, type |-> item.type,
   w |-> getItemDimensions(item.type).w, h |-> getItemDimensions(item.type).h]

\* the nodes the tests are about: those a search starts from and the node added last
Tested == (GridSources \cup {Len(boardItems)}) \ {0}

\* the rectangles tested: the boxes of those nodes, as they are and moved right
\* or down until they touch the 40-unit buffer of one of them, or are one unit
\* inside it
Candidates ==
  LET own == {Box(boardItems[i]) : i \in Tested}
      far == {40, 39}
  IN own \cup {[c EXCEPT !.x = b.x + b.w + g] : c \in own, b \in own, g \in far}
         \cup {[c EXCEPT !.y = b.y + b.h + g] : c \in own, b \in own, g \in far}

\* C24: checkOverlap(x, y, w, h, exclude) is true exactly when some node other
\* than exclude is less than 40 units away from the rectangle on both axes; the
\* test gives the same answer with the rectangle and the node's box swapped, is
\* false on an empty board, and is false for a rectangle exactly 40 units from
\* a node on an axis.
C24_OverlapTest ==
  /\ \A c \in Candidates : \A ex \in {Null} \cup {boardItems[i].id : i \in Tested} :
       checkOverlap(boardItems, c.x, c.y, c.w, c.h, ex) <=>
         \E i \in DOMAIN boardItems :
           /\ boardItems[i].id # ex
           /\ Gap(c.x, c.w, Box(boardItems[i]).x, Box(boardItems[i]).w) < 40
           /\ Gap(c.y, c.h, Box(boardItems[i]).y, Box(boardItems[i]).h) < 40
  /\ \A c \in Candidates : \A i \in DOMAIN boardItems :
       LET b == Box(boardItems[i])
           asNode(r) == <<Item("r", r.type, "", r.x, r.y)>>
       IN /\ checkOverlap(<<boardItems[i]>>, c.x, c.y, c.w, c.h, Null)
               <=> checkOverlap(asNode(c), b.x, b.y, b.w, b.h, Null)
          /\ (c.x = b.x + b.w + 40 \/ c.y = b.y + b.h + 40) =>
               ~checkOverlap(<<boardItems[i]>>, c.x, c.y, c.w, c.h, Null)
  /\ \A c \in Candidates : ~checkOverlap(<<>>, c.x, c.y, c.w, c.h, Null)
  /\ boardItems = <<>> => ~checkOverlap(boardItems, 510, 310, 180, 180, Null)

\* a sticky added to the empty room: nothing overlaps, and it is placed at the
\* reference point itself, the centre of the viewport less half its size
C24_Witness ==
  /\ event = "handleAddItem"
  /\ Len(boardItems) = 1
  /\ LastItem(boardItems).type = "sticky"
  /\ LastItem(boardItems).x = 510
  /\ LastItem(boardItems).y = 310
  /\ ~checkOverlap(<<>>, 510, 310, 180, 180, Null)

----------------------------------------------------------------------------
(* The link renderer: connections and pendingConnection of the board, pure  *)
(* functions of the nodes, the links and the pending link.                  *)

\* the node ids that occur as link endpoints, in the order Array.prototype.sort
\* puts them in (by UTF-16 code unit: digits before letters)
IdOrder ==
  <<"1", "2", "3", "4", "5", "n1", "n2", "n3", "scan-1", "scan-b1", "scan-b2", "scan-b3">>
Rank(id) == CHOOSE i \in DOMAIN IdOrder : IdOrder[i] = id

\* the key without the sort: fromId and toId joined as they stand
PairKeyDirected(link) == link.fromId \o "-" \o link.toId

\* [link.fromId, link.toId].sort().join('-')
PairKey(link) ==
  IF Rank(link.fromId) <= Rank(link.toId)
  THEN link.fromId \o "-" \o link.toId
  ELSE link.toId \o "-" \o link.fromId

\* linkGroups[key]: the links pushed under the key, in the order of the links
linkGroups(links) ==
  [key \in {PairKey(links[i]) : i \in DOMAIN links} |->
     SelectSeq(links, LAMBDA l : PairKey(l) = key)]

\* the index counted from 1
FindIndexFromOne(siblings, id) ==
  IF \E i \in DOMAIN siblings : siblings[i].id = id
  THEN CHOOSE i \in DOMAIN siblings :
         /\ siblings[i].id = id
         /\ \A j \in DOMAIN siblings : siblings[j].id = id => i <= j
  ELSE -1

\* siblings.findIndex(l => l.id === link.id), counted from 0
FindIndex(siblings, id) ==
  IF \E i \in DOMAIN siblings : siblings[i].id = id
  THEN (CHOOSE i \in DOMAIN siblings :
          /\ siblings[i].id = id
          /\ \A j \in DOMAIN siblings : siblings[j].id = id => i <= j) - 1
  ELSE -1

getItemCenter(item) ==
  LET d == CASE item.type = "image"      -> [w |-> 256, h |-> 200]
             [] item.type = "objective"  -> [w |-> 256, h |-> 140]
             [] item.type = "idea-strip" -> [w |-> 280, h |-> 60]
             [] item.type = "goal"       -> [w |-> 180, h |-> 180]
             [] OTHER                    -> [w |-> 160, h |-> 160]
  IN [x |-> item.x + d.w \div 2, y |-> item.y + d.h \div 2]

Spread == 30

\* null, as a record that can be compared with a drawable
Nothing == [drawn |-> FALSE]

\* the test on the source left out: a link is drawn, from its target to its
\* target, as soon as its target is found
DrawableToOnly(items, links, link) ==
  IF ~Has(items, link.toId)
  THEN Nothing
  ELSE [drawn |-> TRUE,
        id |-> link.id,
        p1 |-> getItemCenter(Find(items, link.toId)),
        p2 |-> getItemCenter(Find(items, link.toId)),
        variant |-> link.variant,
        index |-> 0,
        count |-> 1,
        offset2 |-> 0]

\* what connections returns for one link: null when an endpoint is not found,
\* otherwise the drawable, of which the end points, the variant, the sibling
\* index and count and the offset are kept.  The offset
\* (index - (count - 1) / 2) * spread is held in halves of a unit.
Drawable(items, links, link) ==
  IF ~Has(items, link.fromId) \/ ~Has(items, link.toId)
  THEN Nothing
  ELSE LET siblings == linkGroups(links)[PairKey(link)]
           index == FindIndex(siblings, link.id)
           count == Len(siblings)
       IN [drawn |-> TRUE,
           id |-> link.id,
           p1 |-> getItemCenter(Find(items, link.fromId)),
           p2 |-> getItemCenter(Find(items, link.toId)),
           variant |-> link.variant,
           index |-> index,
           count |-> count,
           offset2 |-> (2 * index - (count - 1)) * Spread]

connections(items, links) ==
  [i \in DOMAIN links |-> Drawable(items, links, links[i])]

\* null when no link is pending or its source is not found, otherwise the
\* preview line, of which the start point and the variant are kept
pendingConnection(items, start, variant) ==
  IF start = Null THEN Nothing
  ELSE IF ~Has(items, start) THEN Nothing
  ELSE [drawn |-> TRUE, p1 |-> getItemCenter(Find(items, start)), variant |-> variant]

\* a room of part_000 stored after a sync from the scanner: the initial board,
\* a block tagged sticky and an image block tagged image, linked by the sync
ScannedRoom ==
  LET batch == ScanBatch(<<[INITIAL_BLOCKS[1] EXCEPT !.tag = "sticky"],
                           [id |-> RandomBlockId(1), type |-> "image",
                            content |-> "https://picsum.photos/400/200",
                            tag |-> "image"]>>, 2, 0)
  IN [items |-> INITIAL_BOARD_ITEMS \o batch.items,
      links |-> INITIAL_BOARD_LINKS \o batch.links]

\* runs that draw links by hand, delete nodes and open the planning sheet
LinkInit ==
  \/ Mounted("A", INITIAL_BOARD_ITEMS, INITIAL_BOARD_LINKS, MaxLinkSteps, 0)
  \/ \E room \in {[items |-> INITIAL_BOARD_ITEMS, links |-> INITIAL_BOARD_LINKS],
                  ScannedRoom} :
       Mounted("B", room.items, room.links, MaxLinkSteps, 0)

\* the nodes links are drawn between, and the nodes deleted
LinkEnds == {"1", "2", "3", "scan-1", "scan-b1"} \cap Ids(boardItems)
LinkVictims == {"3", "scan-1"} \cap Ids(boardItems)

LinkNext ==
  \/ \E s \in {"planning", "document"} : User("setActiveSection", setActiveSection(s))
  \/ \E id \in LinkEnds : User("toggleLinkMenu", toggleLinkMenu(id))
  \/ \E id \in LinkEnds : \E v \in {"critical", "neutral"} :
       User("handleStartLink", handleStartLink(id, v))
  \/ \E id \in LinkEnds \cup LinkVictims : User(NodePress, handleMouseDown(id, 0))
  \/ User("handleContainerMouseUp", handleContainerMouseUp)
  \/ \E id \in LinkVictims : User("handleDeleteItem", handleDeleteItem(id))
  \/ Timeout

LinkSpec == LinkInit /\ [][LinkNext]_vars

\* the links between the nodes a and b, in either direction
Between(a, b) ==
  {i \in DOMAIN boardLinks :
     {boardLinks[i].fromId, boardLinks[i].toId} = {a, b}}

\* the sum, in halves of a unit, of the offsets of the drawables of the links in G
OffsetSum(G) ==
  LET drawn == connections(boardItems, boardLinks)
      sum[n \in 0..Len(boardLinks)] ==
        IF n = 0 THEN 0
        ELSE sum[n - 1] + (IF n \in G /\ drawn[n].drawn THEN drawn[n].offset2 ELSE 0)
  IN sum[Len(boardLinks)]

\* C25: fan-out symmetry.  For every pair of nodes with k >= 1 links between
\* them, the perpendicular offsets 30 * (index - (k - 1) / 2) the renderer
\* computes for these links sum to 0, on every board reached.
C25_FanOutSymmetry ==
  \A a \in Ids(boardItems) : \A b \in Ids(boardItems) :
    Between(a, b) # {} => OffsetSum(Between(a, b)) = 0

\* three links drawn between nodes "1" and "2", two of them by hand, one in the
\* other direction: offsets -30, 0, 30
C25_Witness ==
  /\ event = "MouseDownLinking"
  /\ Cardinality(Between("1", "2")) = 3
  /\ \E i \in Between("1", "2") : boardLinks[i].fromId = "2"
  /\ {connections(boardItems, boardLinks)[i].offset2 : i \in Between("1", "2")}
       = {-60, 0, 60}

\* the renderer's sibling relation: the links pushed under the same key
Siblings(l1, l2) == PairKey(l1) = PairKey(l2)

\* C26: the renderer puts two links in the same sibling group if and only if
\* they connect the same unordered pair of nodes, so that a -> b and b -> a are
\* siblings and links over different pairs never are, for the node ids that
\* occur on the board, those of the form scan-<blockId> included; and the
\* group of a link holds exactly the links of its pair.
C26_SiblingsSamePair ==
  /\ \A i \in DOMAIN boardLinks : \A j \in DOMAIN boardLinks :
       Siblings(boardLinks[i], boardLinks[j]) <=>
         {boardLinks[i].fromId, boardLinks[i].toId}
           = {boardLinks[j].fromId, boardLinks[j].toId}
  /\ \A i \in DOMAIN boardLinks :
       LET group == linkGroups(boardLinks)[PairKey(boardLinks[i])]
       IN {group[n] : n \in DOMAIN group}
            = {boardLinks[j] : j \in Between(boardLinks[i].fromId, boardLinks[i].toId)}

\* a link drawn by hand from the scanner's node scan-b1 to its node scan-1, which
\* the sync linked the other way: the two are siblings, and neither is a sibling
\* of the link "1" -> "2"
C26_Witness ==
  /\ event = "MouseDownLinking"
  /\ \E i \in DOMAIN boardLinks : \E j \in DOMAIN boardLinks : \E n \in DOMAIN boardLinks :
       /\ boardLinks[i].fromId = "scan-b1" /\ boardLinks[i].toId = "scan-1"
       /\ boardLinks[j].fromId = "scan-1" /\ boardLinks[j].toId = "scan-b1"
       /\ boardLinks[n].fromId = "1" /\ boardLinks[n].toId = "2"
       /\ Siblings(boardLinks[i], boardLinks[j])
       /\ ~Siblings(boardLinks[i], boardLinks[n])
       /\ Len(linkGroups(boardLinks)[PairKey(boardLinks[i])]) = 2

Resolves(link) == Has(boardItems, link.fromId) /\ Has(boardItems, link.toId)

\* C27: dangling links are tolerated when the board is drawn.  connections has
\* one entry per link, a drawable of that link (its id, its variant, the centres
\* of its two nodes) exactly when both fromId and toId are found and null
\* otherwise, so that the links that resolve are all drawn; the preview of the
\* pending link is drawn exactly when a link is pending and its source is found.
C27_DanglingLinksSkipped ==
  LET drawn == connections(boardItems, boardLinks)
      preview == pendingConnection(boardItems, pendingLinkStart, activeLinkVariant)
  IN /\ DOMAIN drawn = DOMAIN boardLinks
     /\ \A i \in DOMAIN boardLinks :
          /\ drawn[i].drawn <=> Resolves(boardLinks[i])
          /\ drawn[i].drawn =>
               /\ drawn[i].id = boardLinks[i].id
               /\ drawn[i].variant = boardLinks[i].variant
               /\ drawn[i].p1 = getItemCenter(Find(boardItems, boardLinks[i].fromId))
               /\ drawn[i].p2 = getItemCenter(Find(boardItems, boardLinks[i].toId))
     /\ preview.drawn <=> (pendingLinkStart # Null /\ Has(boardItems, pendingLinkStart))

\* a link completed from a source that was deleted while the link was pending:
\* it is skipped, and the three links that resolve are drawn
C27_Witness ==
  /\ event = "MouseDownLinking"
  /\ Len(boardLinks) > 1
  /\ ~Resolves(LastLink(boardLinks))
  /\ ~connections(boardItems, boardLinks)[Len(boardLinks)].drawn
  /\ Cardinality({i \in DOMAIN boardLinks :
                    connections(boardItems, boardLinks)[i].drawn}) = Len(boardLinks) - 1

----------------------------------------------------------------------------
(* The planning sheet: the derived view of the nodes and links, built each  *)
(* time the document section is rendered.                                   *)

\* a filter that lets the image nodes into every bucket
OfTypeOrImage(items, type) ==
  SelectSeq(items, LAMBDA i : i.type = type \/ i.type = "image")

\* items.filter(i => i.type === type)
OfType(items, type) == SelectSeq(items, LAMBDA i : i.type = type)

\* getDeps with the two directions taken for each other
getDepsSwapped(items, links, id, type) ==
  LET deps == SelectSeq(links, LAMBDA l : IF type = "incoming" THEN l.fromId = id
                                          ELSE l.toId = id)
      found == [n \in DOMAIN deps |->
                  LET targetId == IF type = "incoming" THEN deps[n].toId ELSE deps[n].fromId
                  IN IF Has(items, targetId) THEN Find(items, targetId) ELSE Nothing]
  IN SelectSeq(found, LAMBDA i : i # Nothing)

\* getDeps: the links of the node in the direction asked, each mapped to the
\* node found at its other end (undefined when none is), the undefined dropped
getDeps(items, links, id, type) ==
  LET deps == SelectSeq(links, LAMBDA l : IF type = "incoming" THEN l.toId = id
                                          ELSE l.fromId = id)
      found == [n \in DOMAIN deps |->
                  LET targetId == IF type = "incoming" THEN deps[n].fromId ELSE deps[n].toId
                  IN IF Has(items, targetId) THEN Find(items, targetId) ELSE Nothing]
  IN SelectSeq(found, LAMBDA i : i # Nothing)

\* what the sheet shows: the four buckets, the contributors of each goal, the
\* numbers of inputs and outcomes of each objective, the targets of each task
PlanningSheet(items, links) ==
  LET goals == OfType(items, "goal")
      objectives == OfType(items, "objective")
      tasks == OfType(items, "sticky")
      ideas == OfType(items, "idea-strip")
  IN [goals |-> goals,
      objectives |-> objectives,
      tasks |-> tasks,
      ideas |-> ideas,
      contributors |-> [n \in DOMAIN goals |-> getDeps(items, links, goals[n].id, "incoming")],
      requires |-> [n \in DOMAIN objectives |->
                      Len(getDeps(items, links, objectives[n].id, "incoming"))],
      contributes |-> [n \in DOMAIN objectives |->
                         Len(getDeps(items, links, objectives[n].id, "outgoing"))],
      targets |-> [n \in DOMAIN tasks |-> getDeps(items, links, tasks[n].id, "outgoing")]]

OnSheet == activeSection = "document"

\* the nodes at the other end of the links of node id, link by link in the order
\* of the link collection, a link whose other end is not found giving nothing
Counterparts(id, type) ==
  LET upTo[n \in 0..Len(boardLinks)] ==
        IF n = 0 THEN <<>>
        ELSE LET l == boardLinks[n]
                 here == IF type = "incoming" THEN l.toId ELSE l.fromId
                 other == IF type = "incoming" THEN l.fromId ELSE l.toId
             IN IF here = id /\ Has(boardItems, other)
                THEN Append(upTo[n - 1], Find(boardItems, other))
                ELSE upTo[n - 1]
  IN upTo[Len(boardLinks)]

\* C28: getDeps(id, incoming) returns, in the order of the links, the node at
\* fromId of every link with toId = id whose fromId is found, and
\* getDeps(id, outgoing) the node at toId of every link with fromId = id whose
\* toId is found; a link whose other end is missing gives nothing, and parallel
\* links give the same node once per link.  Stated for every board reached and
\* every id of a node or of a link end.
C28_DepsFollowLinks ==
  \A id \in Ids(boardItems) \cup {boardLinks[i].fromId : i \in DOMAIN boardLinks}
                            \cup {boardLinks[i].toId : i \in DOMAIN boardLinks} :
    \A type \in {"incoming", "outgoing"} :
      getDeps(boardItems, boardLinks, id, type) = Counterparts(id, type)

\* the sheet opened on a board whose last link starts at a node that is no longer
\* there and ends at one that is: that link is dropped from the dependencies of
\* its target, and every other link into the target gives its node
C28_Witness ==
  /\ OnSheet
  /\ event = "setActiveSection"
  /\ Len(boardLinks) > 1
  /\ LET l == boardLinks[Len(boardLinks)]
         into == {i \in DOMAIN boardLinks : boardLinks[i].toId = l.toId}
         deps == getDeps(boardItems, boardLinks, l.toId, "incoming")
     IN /\ ~Has(boardItems, l.fromId)
        /\ Has(boardItems, l.toId)
        /\ Len(deps) = Cardinality(into) - 1
        /\ Len(deps) > 0

----------------------------------------------------------------------------
(* Runs that build a goal with two objectives and read the planning sheet *)

\* a render in which the builder would reverse the node collection in place
toggleLanguageReversing ==
  /\ boardItems' = [i \in DOMAIN boardItems |-> boardItems[Len(boardItems) + 1 - i]]
  /\ UNCHANGED <<impl, activeSection, boardLinks, pointerVars, deletingIds, transform,
                 wizardVars, timers, scanVars, idVars, inputs>>

\* toggleLanguage: the next language is set and App renders again, the sheet
\* with it when the document section is shown; the language is in no label the
\* model keeps
toggleLanguage == UNCHANGED <<impl, activeSection, boardVars, pointerVars, deletingIds,
                              transform, wizardVars, timers, scanVars, idVars, inputs>>

\* a room of part_000 stored after a sync of one image block
ImageRoom ==
  LET batch == ScanBatch(<<[id |-> RandomBlockId(1), type |-> "image",
                            content |-> "https://picsum.photos/400/200",
                            tag |-> "image"]>>, 1, 0)
  IN [items |-> INITIAL_BOARD_ITEMS \o batch.items,
      links |-> INITIAL_BOARD_LINKS \o batch.links]

SheetInit ==
  \/ Mounted("A", INITIAL_BOARD_ITEMS, INITIAL_BOARD_LINKS, MaxSheetSteps, MaxSheetInputs)
  \/ \E room \in {[items |-> INITIAL_BOARD_ITEMS, links |-> INITIAL_BOARD_LINKS],
                  ImageRoom} :
       Mounted("B", room.items, room.links, MaxSheetSteps, MaxSheetInputs)

\* the nodes the scenario creates: the goal first, then the two objectives
MadeGoal == RandomNodeId(1)
MadeObjectives == <<RandomNodeId(2), RandomNodeId(3)>>

\* the number of the scenario's next operation
Turn == MaxSheetSteps - steps + 1

\* an event beside the scenario's operations
Aside(name, Handler) ==
  /\ Handler
  /\ UNCHANGED <<roomVars, steps>>
  /\ event' = name

SheetNext ==
  \/ Turn = 1 /\ User("handleAddItem", handleAddItem("goal"))
  \/ Turn \in {2, 3} /\ User("handleAddItem", handleAddItem("objective"))
  \/ Turn \in {4, 7} /\ activeLinkMenuId = Null
                     /\ User("toggleLinkMenu", toggleLinkMenu(MadeObjectives[(Turn - 1) \div 3]))
  \/ Turn \in {5, 8} /\ User("handleStartLink",
                             handleStartLink(MadeObjectives[(Turn - 2) \div 3], "positive"))
  \/ Turn \in {6, 9} /\ pendingLinkStart = MadeObjectives[(Turn - 3) \div 3]
                     /\ User(NodePress, handleMouseDown(MadeGoal, 0))
  \/ \E s \in {"planning", "document"} : Aside("setActiveSection", setActiveSection(s))
  \/ Aside("toggleLanguage", toggleLanguage)
  \/ Aside("ZoomIn", ZoomIn)
  \/ Aside("ZoomOut", ZoomOut)

SheetSpec == SheetInit /\ [][SheetNext]_vars

\* the four buckets of the sheet, by the type each collects
BucketTypes == {"goal", "objective", "sticky", "idea-strip"}
Bucket(type) ==
  LET sheet == PlanningSheet(boardItems, boardLinks)
  IN CASE type = "goal" -> sheet.goals
       [] type = "objective" -> sheet.objectives
       [] type = "sticky" -> sheet.tasks
       [] type = "idea-strip" -> sheet.ideas

\* the places of the nodes of a type in the node collection, and the k-th of them
Places(type) == {i \in DOMAIN boardItems : boardItems[i].type = type}
Place(type, k) ==
  CHOOSE i \in Places(type) : Cardinality({j \in Places(type) : j <= i}) = k

Members(seq) == {seq[n] : n \in DOMAIN seq}

\* the scenario has run: the goal, the two objectives and the two links are made
ScenarioDone == steps = 0

\* C29: the sheet sorts the nodes by type into goals, objectives, tasks (sticky)
\* and ideas (idea-strip): no node is in two buckets, each bucket lists its nodes
\* in the order of the node collection, and the buckets together hold exactly
\* the nodes of those four types.  Once a goal has been added, then two
\* objectives, and each objective has been linked to the goal with variant
\* positive, the goals bucket holds that goal and the dependencies coming into
\* it are exactly the two objectives.
C29_BucketsPartition ==
  /\ \A t \in BucketTypes :
       /\ Len(Bucket(t)) = Cardinality(Places(t))
       /\ \A k \in DOMAIN Bucket(t) : Bucket(t)[k] = boardItems[Place(t, k)]
  /\ \A t, u \in BucketTypes : t # u => Members(Bucket(t)) \cap Members(Bucket(u)) = {}
  /\ UNION {Members(Bucket(t)) : t \in BucketTypes}
       = {boardItems[i] : i \in {j \in DOMAIN boardItems : boardItems[j].type \in BucketTypes}}
  /\ ScenarioDone =>
       LET sheet == PlanningSheet(boardItems, boardLinks)
           at == {n \in DOMAIN sheet.goals : sheet.goals[n].id = MadeGoal}
       IN /\ Cardinality(at) = 1
          /\ \A n \in at :
               /\ Len(sheet.contributors[n]) = 2
               /\ {sheet.contributors[n][k].id : k \in 1..2} = Members(MadeObjectives)
               /\ \A k \in 1..2 : sheet.contributors[n][k].type = "objective"

\* the sheet opened after the scenario on a board that also holds an image node:
\* the image node is in no bucket, and the goal made shows its two objectives
C29_Witness ==
  /\ ScenarioDone
  /\ OnSheet
  /\ event = "setActiveSection"
  /\ \E i \in DOMAIN boardItems : boardItems[i].type = "image"
  /\ Len(Bucket("goal")) = 2
  /\ Len(Bucket("objective")) = 3
  /\ Bucket("goal")[2].id = MadeGoal
  /\ PlanningSheet(boardItems, boardLinks).contributors[2]
       = <<Find(boardItems, MadeObjectives[1]), Find(boardItems, MadeObjectives[2])>>

\* the state the board keeps for the pointer, the view, the wizard and deletions
interactionVars == <<pointerVars, deletingIds, transform, wizardVars, timers>>

----------------------------------------------------------------------------
(* The sync from the scanner *)

\* the first n elements of a sequence, and the elements after them
Front(seq, n) == [i \in 1..n |-> seq[i]]
Back(seq, n) == [i \in 1..(Len(seq) - n) |-> seq[n + i]]

\* C31: a sync from the scanner appends its batch wholesale, in both
\* implementations: the node collection after it is the one before it followed
\* by the nodes of the batch in their order, the link collection the one before
\* it followed by the links of the batch in their order; no node or link that
\* was there is changed, removed or moved.
C31_SyncAppendsBatch ==
  [][event' = "handleSyncToBoard" =>
       LET batch == ScanBatch(blocks, Len(blocks), nextLink + 1)
       IN /\ Len(boardItems') = Len(boardItems) + Len(batch.items)
          /\ Len(boardLinks') = Len(boardLinks) + Len(batch.links)
          /\ Front(boardItems', Len(boardItems)) = boardItems
          /\ Front(boardLinks', Len(boardLinks)) = boardLinks
          /\ Back(boardItems', Len(boardItems)) = batch.items
          /\ Back(boardLinks', Len(boardLinks)) = batch.links]_vars

----------------------------------------------------------------------------
(* The rooms of part_000 *)

RandomRoomId(k) == "r" \o ToString(k)

\* the rooms with the items and links of each, the active one included
AllRooms ==
  [i \in DOMAIN rooms |->
     IF rooms[i].id = activeRoomId THEN Room(activeRoomId, boardItems, boardLinks)
     ELSE rooms[i]]

\* the rooms rs when the room with id active is the one shown
Shown(rs, active) ==
  [i \in DOMAIN rs |-> IF rs[i].id = active THEN Active(active) ELSE rs[i]]

\* the board of the room shown among rs: empty when there is none
ShownBoard(rs, active) ==
  IF Has(rs, active) THEN [items |-> Find(rs, active).items, links |-> Find(rs, active).links]
  ELSE [items |-> <<>>, links |-> <<>>]

OnDashboard == impl = "B" /\ activeSection = "dashboard"

\* the board mounts when the planning section is entered
EnterBoard ==
  /\ activeSection' = "planning"
  /\ UNCHANGED <<pointerVars, deletingIds, transform, wizardVars, timers, scanVars>>

\* a room card of the dashboard: onSelectRoom(room.id); onNavigate('planning')
selectRoom(id) ==
  /\ OnDashboard
  /\ id \in Ids(rooms)
  /\ activeRoomId' = id
  /\ rooms' = Shown(AllRooms, id)
  /\ boardItems' = ShownBoard(AllRooms, id).items
  /\ boardLinks' = ShownBoard(AllRooms, id).links
  /\ EnterBoard
  /\ UNCHANGED <<impl, idVars, nextRoom, inputs>>

\* the items a room is created with: none (the form), or those of a preset
AmbitionItems == <<Item("g1", "goal", "The Ultimate Goal", 500, 300)>>
RoomPresets == {<<>>, AmbitionItems}

createRoom(initialItems) ==
  /\ OnDashboard
  /\ nextRoom < MaxRandom
  /\ LET id == RandomRoomId(nextRoom + 1)
     IN /\ rooms' = <<Active(id)>> \o AllRooms
        /\ activeRoomId' = id
  /\ nextRoom' = nextRoom + 1
  /\ boardItems' = initialItems
  /\ boardLinks' = <<>>
  /\ EnterBoard
  /\ UNCHANGED <<impl, idVars, inputs>>

deleteRoom(id) ==
  /\ OnDashboard
  /\ id \in Ids(rooms)
  /\ LET filtered == SelectSeq(AllRooms, LAMBDA r : r.id # id)
         active == IF activeRoomId = id
                   THEN IF Len(filtered) > 0 THEN filtered[1].id ELSE Null
                   ELSE activeRoomId
     IN /\ activeRoomId' = active
        /\ rooms' = Shown(filtered, active)
        /\ boardItems' = ShownBoard(filtered, active).items
        /\ boardLinks' = ShownBoard(filtered, active).links
  /\ UNCHANGED <<impl, activeSection, pointerVars, deletingIds, transform, wizardVars,
                 timers, scanVars, idVars, nextRoom, inputs>>

\* a timer that writes its result to the room shown when it fires
RoomTimerFiresIntoShown ==
  /\ timers # <<>>
  /\ IF impl = "A" \/ Head(timers).room = activeRoomId \/ activeRoomId = Null
     THEN TimerFires /\ UNCHANGED roomVars
     ELSE /\ LET t == Head(timers)
             IN /\ boardItems' = RemoveItem(t.items, t.id)
                /\ boardLinks' = CascadeLinks(t.links, t.id)
          /\ timers' = Tail(timers)
          /\ deletingIds' = IF Head(timers).live THEN deletingIds \ {Head(timers).id}
                            ELSE deletingIds
          /\ UNCHANGED <<impl, activeSection, pointerVars, transform, wizardVars,
                         scanVars, idVars, roomVars, inputs>>

\* the oldest timer fires: its setBoardItems and setBoardLinks are those of the
\* render that set it, which write to the room with the id that was active then
RoomTimerFires ==
  /\ timers # <<>>
  /\ IF impl = "A" \/ Head(timers).room = activeRoomId
     THEN TimerFires /\ UNCHANGED roomVars
     ELSE /\ LET t == Head(timers)
                 after == SetBoardLinksB(SetBoardItemsB(Board, [items |-> t.items, links |-> t.links],
                                                        RemoveItem(t.items, t.id)),
                                         [items |-> t.items, links |-> t.links],
                                         CascadeLinks(t.links, t.id))
             IN rooms' = [i \in DOMAIN rooms |->
                            IF rooms[i].id = t.room
                            THEN Room(t.room, after.items, after.links) ELSE rooms[i]]
          /\ timers' = Tail(timers)
          /\ deletingIds' = IF Head(timers).live THEN deletingIds \ {Head(timers).id}
                            ELSE deletingIds
          /\ UNCHANGED <<impl, activeSection, boardVars, pointerVars, transform,
                         wizardVars, scanVars, idVars, activeRoomId, nextRoom, inputs>>

\* an event of the dashboard
Manage(name, Handler) ==
  /\ steps > 0
  /\ Handler
  /\ steps' = steps - 1
  /\ event' = name

RoomTimeout == RoomTimerFires /\ UNCHANGED steps /\ event' = "TimerFires"

\* the rooms part_000 finds stored: the default room alone, or the default room
\* before a room with one note
SecondRoom == Room("room-2", <<Item("s1", "sticky", "Note", 100, 100)>>, <<>>)

RoomInit ==
  \E rest \in {<<>>, <<SecondRoom>>} :
    MountedIn("B", INITIAL_BOARD_ITEMS, INITIAL_BOARD_LINKS,
              <<Active(DefaultRoomId)>> \o rest, DefaultRoomId, MaxRoomSteps, MaxRoomInputs)

\* the nodes pressed, edited and deleted in these runs
RoomNodes == {"2", "s1", "g1"} \cap Ids(boardItems)

RoomNext ==
  \/ \E s \in Sections : User("setActiveSection", setActiveSection(s))
  \/ \E id \in Ids(rooms) : Manage("selectRoom", selectRoom(id))
  \/ \E initial \in RoomPresets : Manage("createRoom", createRoom(initial))
  \/ \E id \in Ids(rooms) : Manage("deleteRoom", deleteRoom(id))
  \/ User("handleAddItem", handleAddItem("sticky"))
  \/ \E id \in RoomNodes, c \in TypedText : User("handleUpdateItem", handleUpdateItem(id, c))
  \/ \E id \in RoomNodes : User(NodePress, handleMouseDown(id, 0))
  \/ \E d \in PointerDeltas : User("handleContainerMouseMove", handleContainerMouseMove(d))
  \/ User("handleContainerMouseUp", handleContainerMouseUp)
  \/ \E id \in RoomNodes : User("toggleLinkMenu", toggleLinkMenu(id))
  \/ \E id \in RoomNodes : User("handleStartLink", handleStartLink(id, "neutral"))
  \/ \E id \in RoomNodes : User("handleDeleteItem", handleDeleteItem(id))
  \/ RoomTimeout
  \/ \E id \in Ids(blocks) : User("handleRightClick", handleRightClick(id))
  \/ User("handleTag", handleTag("sticky"))
  \/ User("handleSyncToBoard", handleSyncToBoard)

RoomSpec == RoomInit /\ [][RoomNext]_vars

----------------------------------------------------------------------------
(* Runs of presses, moves and releases on the board *)

DragInit ==
  \E i \in {"A", "B"} :
    Mounted(i, INITIAL_BOARD_ITEMS, INITIAL_BOARD_LINKS, MaxDragSteps, MaxDragInputs)

\* the nodes pressed in these runs
DragNodes == {"1", "2"} \cap Ids(boardItems)

DragNext ==
  \/ User("setActiveSection", setActiveSection("planning"))
  \/ \E b \in Buttons : User(CanvasPress(b), handleMouseDown(Null, b))
  \/ \E id \in DragNodes : User(NodePress, handleMouseDown(id, 0))
  \/ \E d \in PointerDeltas : User("handleContainerMouseMove", handleContainerMouseMove(d))
  \/ \E d \in PointerDeltas :
       User("handleContainerMouseMoveIdle", handleContainerMouseMoveIdle(d))
  \/ User("handleContainerMouseUp", handleContainerMouseUp)
  \/ \E id \in DragNodes : User("toggleLinkMenu", toggleLinkMenu(id))
  \/ \E id \in DragNodes : User("handleStartLink", handleStartLink(id, "neutral"))
  \/ \E id \in DragNodes : User("handleDoubleClickNode", handleDoubleClickNode(id))
  \/ \E id \in DragNodes : User("handleDeleteItem", handleDeleteItem(id))
  \/ Timeout

DragSpec == DragInit /\ [][DragNext]_vars

\* a pointer move, in whichever branch of the handler
Moved == event' \in {"handleContainerMouseMove", "handleContainerMouseMoveIdle"}

\* C32: a drag and a pan end when the pointer is released or leaves the canvas:
\* after either event draggingId is null and isPanning is false, and the event
\* leaves the pending link, the focus target, the selection, the nodes and the
\* links as they were; pointer moves made with draggingId null and isPanning
\* false, as they are until the next press, change neither the position of a
\* node nor the offset of the viewport.
C32_ReleaseEndsDragAndPan ==
  [][/\ event' = "handleContainerMouseUp" =>
          /\ draggingId' = Null
          /\ isPanning' = FALSE
          /\ UNCHANGED <<pendingLinkStart, focusModeId, selectedId, boardItems, boardLinks>>
     /\ (Moved /\ draggingId = Null /\ ~isPanning) =>
          /\ UNCHANGED <<boardItems, boardLinks, transform, draggingId, isPanning>>]_vars

\* a move made after the release that ended the drag of a node
C32_Witness ==
  /\ event = "handleContainerMouseMoveIdle"
  /\ draggingId = Null
  /\ ~isPanning
  /\ selectedId \in DragNodes
  /\ inputs = 0
  /\ \E i \in DOMAIN boardItems :
       /\ boardItems[i].id = selectedId
       /\ boardItems[i].x # INITIAL_BOARD_ITEMS[i].x

\* the node with the id, moved by d screen pixels at the scale s
Dragged(item, d, s) ==
  [item EXCEPT !.x = item.x + (d.dx * 1000) \div s, !.y = item.y + (d.dy * 1000) \div s]

\* C33: while a node is being dragged (draggingId is set), a pointer move by
\* (dx, dy) screen pixels changes the position of that node only, by
\* (dx / scale, dy / scale) in board space: every other node, every other
\* field of the dragged node, the links and the viewport transform stay as they
\* are, and when the dragged node is no longer on the board the move changes
\* neither collection.
C33_DragMovesOneNode ==
  [][\A d \in PointerDeltas :
       (draggingId # Null /\ (handleContainerMouseMove(d) \/ handleContainerMouseMoveIdle(d))) =>
          /\ Len(boardItems') = Len(boardItems)
          /\ \A i \in DOMAIN boardItems :
               boardItems'[i] = IF boardItems[i].id = draggingId
                                THEN Dragged(boardItems[i], d, transform.s)
                                ELSE boardItems[i]
          /\ UNCHANGED <<boardLinks, transform>>]_vars

----------------------------------------------------------------------------
(* The grid-below search with no free cell *)

\* every one of the 45 cells below (refX, refY) overlaps some node
GridFull(items, refX, refY, width, height) ==
  \A row \in 1..5 : \A k \in 1..9 :
    checkOverlap(items, CellX(refX, k), CellY(refY, row), width, height, Null)

\* C34: when all 45 cells of the grid below the source (5 rows of 9 offsets)
\* overlap nodes, findBestPosition in grid-below mode returns no cell of the
\* grid: it returns what the spiral search from the reference point (refX,
\* refY) itself returns, the first candidate of the spiral that overlaps
\* nothing or the last one when all overlap, which may lie beside or above the
\* source.  Stated for every board reached, every node a search can start from
\* and every size it is asked for.
C34_FullGridFallsToSpiral ==
  \A i \in GridSources : \A d \in GridSizes :
    LET refX == boardItems[i].x
        refY == boardItems[i].y
        pos == findBestPosition(boardItems, refX, refY, d.w, d.h, "grid-below")
        taken(k) == LET c == SpiralCandidate(refX, refY, k)
                    IN checkOverlap(boardItems, c.x, c.y, d.w, d.h, Null)
    IN GridFull(boardItems, refX, refY, d.w, d.h) =>
         /\ \A row \in 1..5 : \A k \in 1..9 :
              pos # [x |-> CellX(refX, k), y |-> CellY(refY, row)]
         /\ \E k \in 0..200 :
              /\ pos = SpiralCandidate(refX, refY, k)
              /\ \A j \in 0..(k - 1) : taken(j)
              /\ k = 200 \/ ~taken(k)

\* a connected task asked for from the objective whose 45 cells are all taken:
\* the place found for it overlaps nothing and is not below the objective
C34_Witness ==
  /\ event = "createConnectedTask"
  /\ Has(boardItems, "o1")
  /\ LET o == Find(boardItems, "o1")
         pos == findBestPosition(boardItems, o.x, o.y, 180, 180, "grid-below")
     IN /\ GridFull(boardItems, o.x, o.y, 180, 180)
        /\ ~checkOverlap(boardItems, pos.x, pos.y, 180, 180, Null)
        /\ pos.y <= o.y

----------------------------------------------------------------------------
(* Runs of deletions: a node is selected, picked as link source, deleted,   *)
(* once or twice, and the board is cleared and added to before the timers   *)
(* fire                                                                     *)

DeleteInit ==
  \E i \in {"A", "B"} : Mounted(i, INITIAL_BOARD_ITEMS, INITIAL_BOARD_LINKS, MaxDeleteSteps, 0)

\* the nodes pressed and deleted in these runs
DeleteNodes == {"2", RandomNodeId(1)} \cap Ids(boardItems)

DeleteNext ==
  \/ User("setActiveSection", setActiveSection("planning"))
  \/ \E id \in DeleteNodes : User(NodePress, handleMouseDown(id, 0))
  \/ User("handleContainerMouseUp", handleContainerMouseUp)
  \/ \E id \in DeleteNodes : User("toggleLinkMenu", toggleLinkMenu(id))
  \/ \E id \in DeleteNodes : User("handleStartLink", handleStartLink(id, "neutral"))
  \/ \E id \in DeleteNodes : User("handleDeleteItem", handleDeleteItem(id))
  \/ User("ClearBoard", ClearBoard)
  \/ User("handleAddItem", handleAddItem("sticky"))
  \/ Timeout

DeleteSpec == DeleteInit /\ [][DeleteNext]_vars

\* the board a deferred removal t leaves when it runs on the board given
RemovalOn(board, t) ==
  IF impl = "A"
  THEN [items |-> RemoveItem(board.items, t.id), links |-> CascadeLinks(board.links, t.id)]
  ELSE LET rendered == [items |-> t.items, links |-> t.links]
       IN SetBoardLinksB(SetBoardItemsB(board, rendered, RemoveItem(t.items, t.id)),
                         rendered, CascadeLinks(t.links, t.id))

\* C35: deleteNode for an id that is not, or no longer, in the node collection
\* does nothing to the data: the deferred callback that runs for such an id
\* leaves the node collection and the link collection as they are.  So two
\* calls of deleteNode(id) made before the first callback fires end as one call
\* does: the second callback, run on the board the first one left, leaves that
\* board, and the deleting set is without id after either.
C35_DeleteMissingIsNoOp ==
  /\ [][event' = "TimerFires" =>
          /\ [items |-> boardItems', links |-> boardLinks'] = RemovalOn(Board, Head(timers))
          /\ ~Has(boardItems, Head(timers).id) => UNCHANGED <<boardItems, boardLinks>>]_vars
  /\ [](Len(timers) >= 2 /\ timers[1] = timers[2] =>
          /\ RemovalOn(RemovalOn(Board, timers[1]), timers[2]) = RemovalOn(Board, timers[1])
          /\ (deletingIds \ {timers[1].id}) \ {timers[2].id} = deletingIds \ {timers[1].id})

\* C36: the interaction state never refers to a node that has been removed: in
\* every reachable state the focus target, the dragged node, the source of the
\* pending link, the node whose link menu is open and the source the wizard was
\* opened from are each null or the id of a node of the node collection, also
\* after a deferred deletion has fired and after the board was cleared.
C36_InteractionRefsLive ==
  \A ref \in {focusModeId, draggingId, pendingLinkStart, activeLinkMenuId, wizardSourceId} :
    ref = Null \/ ref \in Ids(boardItems)

----------------------------------------------------------------------------
(* The batch of a sync *)

\* the documents of the scanner: the first block and the blocks added after it,
\* each untagged or tagged as a task, an image or a goal
DocIds == [i \in 1..MaxDocBlocks |-> IF i = 1 THEN "1" ELSE RandomBlockId(i - 1)]
DocTags == {Null, "sticky", "image", "goal"}
Documents ==
  UNION {{[i \in 1..n |-> [id |-> DocIds[i], type |-> "text",
                          content |-> IF i = 1 THEN INITIAL_BLOCKS[1].content ELSE "",
                          tag |-> tags[i]]] : tags \in [1..n -> DocTags]}
         : n \in 1..MaxDocBlocks}

\* the scanner open on a document, over the initial board or an empty one (after
\* Clear Board in App.tsx, a blank room in part_000)
BatchInit ==
  \E i \in {"A", "B"}, doc \in Documents,
     board \in {[items |-> INITIAL_BOARD_ITEMS, links |-> INITIAL_BOARD_LINKS],
                [items |-> <<>>, links |-> <<>>]} :
    /\ impl = i
    /\ rooms = IF i = "A" THEN <<>> ELSE <<Active(DefaultRoomId)>>
    /\ activeRoomId = IF i = "A" THEN Null ELSE DefaultRoomId
    /\ nextRoom = 0
    /\ activeSection = "scan"
    /\ boardItems = board.items
    /\ boardLinks = board.links
    /\ selectedId = Null
    /\ draggingId = Null
    /\ pendingLinkStart = Null
    /\ activeLinkVariant = "critical"
    /\ activeLinkMenuId = Null
    /\ deletingIds = {}
    /\ transform = InitialTransform
    /\ isPanning = FALSE
    /\ focusModeId = Null
    /\ isTaskWizardOpen = FALSE
    /\ wizardTaskName = ""
    /\ wizardGoalId = NoGoal
    /\ wizardNewGoalName = ""
    /\ wizardSourceId = Null
    /\ timers = <<>>
    /\ blocks = doc
    /\ contextMenu = Null
    /\ nextNode = 0
    /\ nextLink = 0
    /\ nextBlock = Len(doc) - 1
    /\ inputs = 0
    /\ steps = MaxBatchSteps
    /\ event = "mount"

BatchNext ==
  \/ \E s \in Sections : User("setActiveSection", setActiveSection(s))
  \/ \E id \in Ids(blocks) : User("handleRightClick", handleRightClick(id))
  \/ \E tag \in DocTags : User("handleTag", handleTag(tag))
  \/ User("handleSyncToBoard", handleSyncToBoard)

BatchSpec == BatchInit /\ [][BatchNext]_vars

\* the tagged blocks of the document, in document order
Tagged(bs) == SelectSeq(bs, LAMBDA b : b.tag # Null)

\* the places of the task-tagged blocks before place k
TasksBefore(tagged, k) == {j \in 1..(k - 1) : tagged[j].tag = "sticky"}

\* the places of the image-tagged blocks with a task-tagged block before them
LinkedImages(tagged) ==
  {k \in DOMAIN tagged : tagged[k].tag = "image" /\ TasksBefore(tagged, k) # {}}

\* the i-th place of a set of places, counted from the lowest
NthPlace(places, i) ==
  CHOOSE k \in places : Cardinality({m \in places : m < k}) = i - 1

Highest(places) == CHOOSE k \in places : \A m \in places : m <= k

\* C38: the batch a sync adds to the board has one node per tagged block, in
\* document order, and none for an untagged block; its links are, in document
\* order, one neutral link to each image-tagged block that has a task-tagged
\* (sticky) block before it, from the most recent such block, and no others;
\* both endpoints of every link of the batch are nodes of the batch, and an
\* image tagged before any task is the target of no link of the batch.
C38_BatchFollowsTags ==
  [][event' = "handleSyncToBoard" =>
       LET tagged == Tagged(blocks)
           images == LinkedImages(tagged)
           newItems == Back(boardItems', Len(boardItems))
           newLinks == Back(boardLinks', Len(boardLinks))
       IN /\ Len(newItems) = Len(tagged)
          /\ \A k \in DOMAIN tagged :
               /\ newItems[k].id = ScanId(tagged[k].id)
               /\ newItems[k].content = tagged[k].content
          /\ Len(newLinks) = Cardinality(images)
          /\ \A i \in DOMAIN newLinks :
               LET k == NthPlace(images, i)
               IN /\ newLinks[i].toId = newItems[k].id
                  /\ newLinks[i].fromId = newItems[Highest(TasksBefore(tagged, k))].id
                  /\ newLinks[i].variant = "neutral"
          /\ \A i \in DOMAIN newLinks :
               {newLinks[i].fromId, newLinks[i].toId} \subseteq Ids(newItems)
          /\ \A k \in DOMAIN tagged :
               tagged[k].tag = "image" /\ TasksBefore(tagged, k) = {}
                 => \A i \in DOMAIN newLinks : newLinks[i].toId # newItems[k].id
  ]_vars

\* a sync of a document of two tasks, an untagged block and an image onto an
\* empty board: three nodes, and one link from the second task to the image
C38_Witness ==
  /\ event = "handleSyncToBoard"
  /\ Len(boardItems) = 3
  /\ boardItems[1].type = "sticky"
  /\ boardItems[2].type = "sticky"
  /\ boardItems[3].type = "image"
  /\ boardItems[3].id = ScanId(RandomBlockId(3))
  /\ boardLinks = <<Link("link-" \o RandomLinkId(1), boardItems[2].id,
                         boardItems[3].id, "neutral")>>

----------------------------------------------------------------------------
(* The rooms a step leaves alone *)

RoomEvents == {"selectRoom", "createRoom", "deleteRoom"}

\* the room a step writes to: none for an event of the dashboard, the room of the
\* timer for a deferred deletion, the room shown for every other event
TargetRoom(name, ts, active) ==
  IF name \in RoomEvents THEN Null
  ELSE IF name = "TimerFires" THEN Head(ts).room
  ELSE active

\* C39: in part_000 every step changes the items and links of at most one room,
\* the one that was shown when its gesture was dispatched (for the callback of a
\* deletion: when the deletion was dispatched); every other room that is there
\* before and after the step has the items and links it had, also when another
\* room has been selected, created or deleted before the callback fires.
C39_OtherRoomsUntouched ==
  [][impl = "B" =>
       LET before == AllRooms
           after == AllRooms'
           target == TargetRoom(event', timers, activeRoomId)
       IN \A id \in Ids(before) \cap Ids(after) :
            id # target => Find(after, id) = Find(before, id)
  ]_vars

\* the callback of a deletion dispatched in the default room has fired with the
\* second room shown: the links of the node are gone from the default room, and
\* the second room has its note and no link
C39_Witness ==
  /\ impl = "B"
  /\ event = "TimerFires"
  /\ activeRoomId = SecondRoom.id
  /\ boardItems = SecondRoom.items
  /\ Has(rooms, DefaultRoomId)
  /\ boardLinks = SecondRoom.links
  /\ Len(Find(rooms, DefaultRoomId).links) < Len(INITIAL_BOARD_LINKS)

====
